---- MODULE Spec2Model ----
(***************************************************************************)
(* The text understanding pipeline of Social-Monkey:                       *)
(*   backend/app/analysis/slang_normalizer.py  (SlangNormalizer)           *)
(*   backend/app/analysis/emotion_engine.py    (EmotionEngine)             *)
(*                                                                         *)
(* Text is a sequence of one-character strings.  Scores are integers in    *)
(* hundredths (0.3 is 30).  The two pretrained models are black boxes:     *)
(* every call draws the model's answer (or a fault) from a bounded set.    *)
(***************************************************************************)
EXTENDS Integers, Sequences, FiniteSets, TLC

VARIABLES
  EmotionEngine_instance,          \* EmotionEngine._instance   (0 is None, else an object id)
  EmotionEngine_classifier,        \* EmotionEngine._classifier ("None" or "pipeline")
  EmotionEngine_slang_normalizer,  \* EmotionEngine._slang_normalizer (0 is None, else an object id)
  SlangNormalizer_instance,        \* SlangNormalizer._instance (0 is None, else an object id)
  SlangNormalizer_model,           \* SlangNormalizer._model     ("None" or "model")
  SlangNormalizer_tokenizer,       \* SlangNormalizer._tokenizer ("None" or "tokenizer")
  SlangNormalizer_slang_detector,  \* SlangNormalizer._slang_detector ("None" or "pipeline")
  SlangNormalizer_slang_dict,      \* SlangNormalizer._slang_dict ("None", "empty" is {}, "loaded")
  pc,                              \* per thread: the statement it is about to execute
  frame,                           \* per thread: the call it is in
  ret,                             \* per thread: how its last top-level call ended
  hist,                            \* what has happened so far: loader runs, objects made, instances returned
  lastCall,                        \* the last completed pipeline call: its input, result and model invocations
  TESTING,                         \* os.getenv("TESTING") ("None" when unset)
  now,                             \* datetime.now(), in seconds
  RateLimitMiddleware_requests,    \* self.requests: per client IP, the times of its admitted requests
  RateLimitMiddleware_blocked_ips, \* self.blocked_ips: client IP -> unblock time
  inflight,                        \* per client IP: requests forwarded and awaiting call_next
  served                           \* the requests dispatched so far: client IP, time and outcome

vars == << EmotionEngine_instance, EmotionEngine_classifier, EmotionEngine_slang_normalizer,
           SlangNormalizer_instance, SlangNormalizer_model, SlangNormalizer_tokenizer,
           SlangNormalizer_slang_detector, SlangNormalizer_slang_dict,
           pc, frame, ret, hist, lastCall,
           TESTING, now, RateLimitMiddleware_requests, RateLimitMiddleware_blocked_ips,
           inflight, served >>

middlewareVars == << TESTING, now, RateLimitMiddleware_requests,
                     RateLimitMiddleware_blocked_ips, inflight, served >>

classVars == << EmotionEngine_instance, EmotionEngine_classifier, EmotionEngine_slang_normalizer,
                SlangNormalizer_instance, SlangNormalizer_model, SlangNormalizer_tokenizer,
                SlangNormalizer_slang_detector, SlangNormalizer_slang_dict >>

threadVars == << pc, frame, ret, hist >>

-----------------------------------------------------------------------------
(* The record of a completed pipeline call: the method, the text and the   *)
(* flag it was given, and how it ended (an outcome r, see below).          *)

Completed(op, text, flag, r) ==
  [ op |-> op, text |-> text, flag |-> flag,
    exc |-> r.exc, val |-> r.val, events |-> r.events ]

-----------------------------------------------------------------------------
(* Strings *)

\* Python's None passed where a text is expected.
None == << "None" >>

\* The RoBERTa tokenization artifact U+0120 that detect_slang removes.
GDot == "G_dot"

Whitespace == { " ", "\n", "\t" }

UpperAlphabet ==
  << "A","B","C","D","E","F","G","H","I","J","K","L","M",
     "N","O","P","Q","R","S","T","U","V","W","X","Y","Z" >>

LowerAlphabet ==
  << "a","b","c","d","e","f","g","h","i","j","k","l","m",
     "n","o","p","q","r","s","t","u","v","w","x","y","z" >>

\* str.lower() on one character.
LowerChar(c) ==
  IF \E i \in 1..Len(UpperAlphabet) : UpperAlphabet[i] = c
  THEN LowerAlphabet[CHOOSE i \in 1..Len(UpperAlphabet) : UpperAlphabet[i] = c]
  ELSE c

\* str.lower()
lower(s) == [ i \in 1..Len(s) |-> LowerChar(s[i]) ]

\* str.lstrip(): from the first character that is not whitespace on.
lstrip(s) ==
  IF \A i \in 1..Len(s) : s[i] \in Whitespace THEN << >>
  ELSE SubSeq(s, CHOOSE i \in 1..Len(s) :
                   s[i] \notin Whitespace /\ \A j \in 1..(i - 1) : s[j] \in Whitespace,
              Len(s))

\* str.rstrip(): up to the last character that is not whitespace.
rstrip(s) ==
  IF \A i \in 1..Len(s) : s[i] \in Whitespace THEN << >>
  ELSE SubSeq(s, 1, CHOOSE i \in 1..Len(s) :
                      s[i] \notin Whitespace /\ \A j \in (i + 1)..Len(s) : s[j] \in Whitespace)

\* str.strip()
strip(s) == rstrip(lstrip(s))

\* str.replace(old, '') for a one-character old
replace(s, old) == SelectSeq(s, LAMBDA c : c # old)

Min(a, b) == IF a <= b THEN a ELSE b

\* s[:n]
SliceTo(s, n) == SubSeq(s, 1, Min(n, Len(s)))

\* s[n:]
SliceFrom(s, n) == SubSeq(s, Min(n, Len(s)) + 1, Len(s))

\* `not text or not text.strip()`
IsBlank(text) == text = None \/ text = << >> \/ strip(text) = << >>

-----------------------------------------------------------------------------
(* Outcomes of a call: a value, or an exception on its way up; with the    *)
(* model invocations the call made, in order.                              *)

\* One invocation of a model: what it was given and what it did.
Invocation(model, input, answer) == [ model |-> model, input |-> input, answer |-> answer ]

Ok(v, ev) == [ exc |-> FALSE, val |-> v, events |-> ev ]

Raise(e, ev) == [ exc |-> TRUE, val |-> e, events |-> ev ]

-----------------------------------------------------------------------------
(* The lexicon: slang_rich_dictionary.json, in the file's key order.       *)

LexiconFile ==
  << [ key |-> << "n","g","l" >>,
       description |-> << "n","o","t"," ","l","i","e" >>,
       normalized_text |-> << "n","o","t" >>,
       full_form |-> << >>,
       variations |-> << >> ],
     [ key |-> << "f","r" >>,
       description |-> << >>,
       normalized_text |-> << "r","e","a","l" >>,
       full_form |-> << "f","o","r" >>,
       variations |-> << << "F","R","R" >> >> ],
     [ key |-> << "c","a","p" >>,
       description |-> << >>,
       normalized_text |-> << >>,
       full_form |-> << "l","i","e" >>,
       variations |-> << << "K","a","p" >>, << "c","a","p","p" >> >> ],
     [ key |-> << "w" >>,
       description |-> << >>,
       normalized_text |-> << >>,
       full_form |-> << >>,
       variations |-> << >> ],
     [ key |-> << "d","u","b" >>,
       description |-> << "w","i","n" >>,
       normalized_text |-> << >>,
       full_form |-> << >>,
       variations |-> << << "W" >>, << "#","W" >> >> ] >>

\* The entries of SlangNormalizer._slang_dict ({} after a failed load).
DictEntries == IF SlangNormalizer_slang_dict = "loaded" THEN LexiconFile ELSE << >>

\* `slang_lower in [v.lower() for v in variations]`
InVariations(slang_lower, entry) ==
  \E j \in 1..Len(entry.variations) : lower(entry.variations[j]) = slang_lower

\* description > normalized_text > full_form; << >> when the entry has none.
EntryForm(entry) ==
  IF entry.description # << >> THEN entry.description
  ELSE IF entry.normalized_text # << >> THEN entry.normalized_text
  ELSE entry.full_form

-----------------------------------------------------------------------------
(* SlangNormalizer *)

\* Mutant of _exists_in_dictionary: the variations are compared as written,
\* not lowercased.
_exists_in_dictionary_raw(slang) ==
  LET slang_lower == lower(slang) IN
  IF SlangNormalizer_slang_dict = "None" THEN Raise("TypeError", << >>)
  ELSE IF \E i \in 1..Len(DictEntries) : DictEntries[i].key = slang_lower
       THEN Ok(TRUE, << >>)
  ELSE Ok(\E i \in 1..Len(DictEntries) :
            \E j \in 1..Len(DictEntries[i].variations) :
              DictEntries[i].variations[j] = slang_lower, << >>)

\* SlangNormalizer._exists_in_dictionary.  `in` on a _slang_dict that is still
\* None raises TypeError.
_exists_in_dictionary(slang) ==
  LET slang_lower == lower(slang) IN
  IF SlangNormalizer_slang_dict = "None" THEN Raise("TypeError", << >>)
  ELSE IF \E i \in 1..Len(DictEntries) : DictEntries[i].key = slang_lower
       THEN Ok(TRUE, << >>)
  ELSE Ok(\E i \in 1..Len(DictEntries) : InVariations(slang_lower, DictEntries[i]), << >>)

\* SlangNormalizer._lookup_slang.  An entry that has none of the three forms
\* falls through: the direct hit to the variations scan, a variations hit to
\* the next entry, and at the end to the term itself.
_lookup_slang(slang) ==
  LET slang_lower == lower(slang)
      direct == { i \in 1..Len(DictEntries) :
                    DictEntries[i].key = slang_lower /\ EntryForm(DictEntries[i]) # << >> }
      byVariation == { i \in 1..Len(DictEntries) :
                         InVariations(slang_lower, DictEntries[i])
                         /\ EntryForm(DictEntries[i]) # << >> }
      first(S) == CHOOSE i \in S : \A j \in S : i <= j
  IN  IF direct # { } THEN EntryForm(DictEntries[first(direct)])
      ELSE IF byVariation # { } THEN EntryForm(DictEntries[first(byVariation)])
      ELSE slang

\* Mutant of Detected: the dictionary check of line 128 is left out.
Detected_unchecked(result, slang_term, found) ==
  << [ text |-> slang_term,
       start |-> result.start,
       end |-> result.end,
       normalized |-> _lookup_slang(lower(slang_term)),
       original |-> lower(slang_term),
       confidence |-> result.score ] >>

\* Mutant of Detected: the end offset is measured from the tagger's word.
Detected_measured(result, slang_term, found) ==
  IF ~ found.val THEN << >>
  ELSE << [ text |-> slang_term,
            start |-> result.start,
            end |-> result.start + Len(result.word),
            normalized |-> _lookup_slang(lower(slang_term)),
            original |-> lower(slang_term),
            confidence |-> result.score ] >>

\* The body of the loop of detect_slang for results[i] (lines 128-142), the
\* term being already stripped (lines 118-124) and looked for (line 128):
\* what is appended to the list.
Detected(result, slang_term, found) ==
  IF ~ found.val THEN << >>
  ELSE << [ text |-> slang_term,
            start |-> result.start,
            end |-> result.end,
            normalized |-> _lookup_slang(lower(slang_term)),
            original |-> lower(slang_term),
            confidence |-> result.score ] >>

\* The loop of detect_slang (lines 115-144) from results[i] on, `detected`
\* being the list built so far.  `found` is _exists_in_dictionary's outcome
\* for results[i].
RECURSIVE DetectLoop(_, _, _)
DetectItem(results, i, detected, slang_term, found) ==
  IF found.exc THEN found
  ELSE DetectLoop(results, i + 1, detected \o Detected(results[i], slang_term, found))

DetectTerm(results, i, detected, slang_term) ==
  DetectItem(results, i, detected, slang_term, _exists_in_dictionary(lower(slang_term)))

DetectLoop(results, i, detected) ==
  IF i > Len(results) THEN Ok(detected, << >>)
  ELSE DetectTerm(results, i, detected, replace(strip(results[i].word), GDot))

\* The try block of detect_slang (lines 113-144): the tagger is invoked on
\* the text, and faults or answers `tagger.results`.
DetectTry(text, tagger) ==
  IF tagger.fault \/ text = None
  THEN Raise("Exception", << Invocation("tagger", text, tagger) >>)
  ELSE [ DetectLoop(tagger.results, 1, << >>)
           EXCEPT !.events = << Invocation("tagger", text, tagger) >> ]

\* Mutant of DetectExcept: the exception is not caught.
DetectExcept_reraise(body) == body

\* The except clause of detect_slang (lines 146-148), `body` being how the
\* try block ended.
DetectExcept(body) == IF body.exc THEN Ok(<< >>, body.events) ELSE body

\* SlangNormalizer.detect_slang
detect_slang(text, tagger) ==
  IF SlangNormalizer_slang_detector = "None" THEN Ok(<< >>, << >>)
  ELSE DetectExcept(DetectTry(text, tagger))

\* sorted(detected, key=lambda x: x['start'], reverse=True): stable, so equal
\* starts keep their order.  Insertion of d into a list already sorted.
RECURSIVE InsertDesc(_, _)
InsertDesc(sorted, d) ==
  IF sorted = << >> THEN << d >>
  ELSE IF Head(sorted).start >= d.start THEN << Head(sorted) >> \o InsertDesc(Tail(sorted), d)
  ELSE << d >> \o sorted

\* Mutant of SortDesc: the detections are spliced in the order detected.
SortDesc_unsorted(detected) == detected

RECURSIVE SortDesc(_)
SortDesc(detected) ==
  IF detected = << >> THEN << >>
  ELSE InsertDesc(SortDesc(SubSeq(detected, 1, Len(detected) - 1)), detected[Len(detected)])

\* `new_text` of normalize_text (lines 246-251)
NewText(slang, keep_original) ==
  IF keep_original
  THEN slang.text \o << " ", "(" >> \o slang.normalized \o << ")" >>
  ELSE slang.normalized

\* The splice loop of normalize_text (lines 239-254).
RECURSIVE Splice(_, _, _)
Splice(normalized_text, detected_sorted, keep_original) ==
  IF detected_sorted = << >> THEN normalized_text
  ELSE Splice(SliceTo(normalized_text, Head(detected_sorted).start)
                \o NewText(Head(detected_sorted), keep_original)
                \o SliceFrom(normalized_text, Head(detected_sorted).end),
              Tail(detected_sorted), keep_original)

\* Mutant of Rewrite: with no detections the text comes back stripped.
Rewrite_stripped(text, keep_original, d) ==
  IF d.exc THEN d
  ELSE IF d.val = << >> THEN Ok(<< strip(text), << >> >>, d.events)
  ELSE Ok(<< Splice(text, SortDesc(d.val), keep_original), d.val >>, d.events)

\* Lines 233-256 of normalize_text, d being how detect_slang ended: the pair
\* (normalized_text, detected).
Rewrite(text, keep_original, d) ==
  IF d.exc THEN d
  ELSE IF d.val = << >> THEN Ok(<< text, << >> >>, d.events)
  ELSE Ok(<< Splice(text, SortDesc(d.val), keep_original), d.val >>, d.events)

\* SlangNormalizer.normalize_text
normalize_text(text, keep_original, tagger) ==
  Rewrite(text, keep_original, detect_slang(text, tagger))

-----------------------------------------------------------------------------
(* EmotionEngine *)

\* settings.EMOTION_MODEL_THRESHOLD (0.3), in hundredths
EMOTION_MODEL_THRESHOLD == 30

\* The character budget of `text[:500]`
TruncateChars == 500

positive_emotions ==
  { "admiration", "amusement", "approval", "caring", "desire", "excitement",
    "gratitude", "joy", "love", "optimism", "pride", "relief" }

negative_emotions ==
  { "anger", "annoyance", "disappointment", "disapproval", "disgust",
    "embarrassment", "fear", "grief", "nervousness", "remorse", "sadness" }

\* sum(scores.get(e, 0) for e in emotions), scores a list of (label, score)
\* with distinct labels
RECURSIVE SumOver(_, _)
SumOver(scores, emotions) ==
  IF scores = << >> THEN 0
  ELSE (IF Head(scores).label \in emotions THEN Head(scores).score ELSE 0)
       + SumOver(Tail(scores), emotions)

\* Mutant of _calculate_sentiment_score: "neutral" is counted as positive.
_calculate_sentiment_score_neutral(scores) ==
  SumOver(scores, positive_emotions \cup { "neutral" }) - SumOver(scores, negative_emotions)

\* Mutant of _calculate_sentiment_score: the negative sum is added.
_calculate_sentiment_score_added(scores) ==
  SumOver(scores, positive_emotions) + SumOver(scores, negative_emotions)

\* EmotionEngine._calculate_sentiment_score
_calculate_sentiment_score(scores) ==
  SumOver(scores, positive_emotions) - SumOver(scores, negative_emotions)

\* max(d, key=d.get) over a dict in insertion order: the first key with the
\* greatest value.  d is not empty.
MaxKey(d) ==
  LET i == CHOOSE i \in 1..Len(d) :
             /\ \A j \in 1..Len(d) : d[j].score <= d[i].score
             /\ \A j \in 1..(i - 1) : d[j].score < d[i].score
  IN  d[i].label

\* `significant_scores` of analyze (lines 114-119), in insertion order.
SignificantAt(all_scores, threshold) ==
  SelectSeq(all_scores, LAMBDA item : item.score >= threshold)

\* Mutant of Dominant: with nothing significant the first key is taken.
Dominant_fallback(all_scores, significant) ==
  IF significant # << >> THEN MaxKey(significant) ELSE all_scores[1].label

\* Mutant of Dominant: the first key is taken, not the greatest.
Dominant_first(all_scores, significant_scores) ==
  IF significant_scores # << >> THEN significant_scores[1].label ELSE all_scores[1].label

\* `dominant` of analyze (lines 115-126)
Dominant(all_scores, significant_scores) ==
  IF significant_scores # << >> THEN MaxKey(significant_scores) ELSE MaxKey(all_scores)

\* Lines 107-142 of analyze: from results[0] of the classifier's answer to
\* the result.  max() of no scores raises ValueError.
Derive(all_scores, slang_detected, normalized_text, original_text, ev) ==
  IF all_scores = << >> THEN Raise("ValueError", ev)
  ELSE Ok([ scores |-> all_scores,
            dominant |-> Dominant(all_scores,
                           SignificantAt(all_scores, EMOTION_MODEL_THRESHOLD)),
            sentiment_score |-> _calculate_sentiment_score(all_scores),
            slang_detected |-> slang_detected,
            normalized_text |-> normalized_text,
            original_text |-> original_text ], ev)

\* Line 105 of analyze and on: the classifier is invoked on the truncated
\* text, and faults or answers `classifier.results`; results[0] of an empty
\* answer raises IndexError.
Invoke(truncated_text, slang_detected, normalized_text, original_text, ev, classifier) ==
  IF EmotionEngine_classifier = "None" THEN Raise("TypeError", ev)
  ELSE IF classifier.fault
       THEN Raise("Exception", Append(ev, Invocation("classifier", truncated_text, classifier)))
  ELSE IF classifier.results = << >>
       THEN Raise("IndexError", Append(ev, Invocation("classifier", truncated_text, classifier)))
  ELSE Derive(classifier.results[1], slang_detected, normalized_text, original_text,
              Append(ev, Invocation("classifier", truncated_text, classifier)))

\* Mutant of Classify: the text is classified whole.
Classify_untruncated(text, slang_detected, normalized_text, original_text, ev, classifier) ==
  [ out |-> Invoke(text, slang_detected, normalized_text, original_text, ev, classifier),
    text |-> text ]

\* Lines 100-142 of analyze: `text` is truncated (line 102) and classified.
\* With the outcome goes the value `text` is bound to, which the except
\* clause reads.
Classify(text, slang_detected, normalized_text, original_text, ev, classifier) ==
  [ out |-> Invoke(SliceTo(text, TruncateChars), slang_detected, normalized_text,
                   original_text, ev, classifier),
    text |-> text ]

\* Lines 92-142 of analyze, n being how normalize_text ended: line 96 rebinds
\* `text` to the rewritten text when slang was detected.
Normalized(text, n, classifier) ==
  IF n.exc THEN [ out |-> n, text |-> text ]
  ELSE Classify(IF n.val[2] # << >> THEN n.val[1] ELSE text,
                n.val[2], n.val[1], text, n.events, classifier)

\* Mutant of AnalyzeTry: the rewrite keeps the original terms.
AnalyzeTry_keeping(text, normalize_slang, tagger, classifier) ==
  IF normalize_slang /\ EmotionEngine_slang_normalizer # 0
  THEN Normalized(text, normalize_text(text, TRUE, tagger), classifier)
  ELSE Classify(text, << >>, text, text, << >>, classifier)

\* Mutant of AnalyzeTry: the flag is not looked at.
AnalyzeTry_unflagged(text, normalize_slang, tagger, classifier) ==
  IF EmotionEngine_slang_normalizer # 0
  THEN Normalized(text, normalize_text(text, FALSE, tagger), classifier)
  ELSE Classify(text, << >>, text, text, << >>, classifier)

\* The try block of analyze (lines 87-142).
AnalyzeTry(text, normalize_slang, tagger, classifier) ==
  IF normalize_slang /\ EmotionEngine_slang_normalizer # 0
  THEN Normalized(text, normalize_text(text, FALSE, tagger), classifier)
  ELSE Classify(text, << >>, text, text, << >>, classifier)

\* Mutant of AnalyzeExcept: the exception is not caught.
AnalyzeExcept_reraise(body) == body.out

\* Mutant of AnalyzeExcept: the handler returns the neutral default.
AnalyzeExcept_neutral(body) ==
  IF body.out.exc
  THEN Ok([ scores |-> << >>,
            dominant |-> "neutral",
            sentiment_score |-> 0,
            slang_detected |-> << >>,
            normalized_text |-> body.text,
            original_text |-> body.text ], body.out.events)
  ELSE body.out

\* The except clause of analyze (lines 144-153), `body` being how the try
\* block ended and what `text` is bound to then.
AnalyzeExcept(body) ==
  IF body.out.exc
  THEN Ok([ scores |-> << >>,
            dominant |-> "error",
            sentiment_score |-> 0,
            slang_detected |-> << >>,
            normalized_text |-> body.text,
            original_text |-> body.text ], body.out.events)
  ELSE body.out

\* Mutant of analyze: line 76 tests `not text` only.
analyze_unstripped(text, normalize_slang, tagger, classifier) ==
  IF text = None \/ text = << >>
  THEN Ok([ scores |-> << >>,
            dominant |-> "neutral",
            sentiment_score |-> 0,
            slang_detected |-> << >>,
            normalized_text |-> text,
            original_text |-> text ], << >>)
  ELSE AnalyzeExcept(AnalyzeTry(text, normalize_slang, tagger, classifier))

\* EmotionEngine.analyze
analyze(text, normalize_slang, tagger, classifier) ==
  IF IsBlank(text)
  THEN Ok([ scores |-> << >>,
            dominant |-> "neutral",
            sentiment_score |-> 0,
            slang_detected |-> << >>,
            normalized_text |-> text,
            original_text |-> text ], << >>)
  ELSE AnalyzeExcept(AnalyzeTry(text, normalize_slang, tagger, classifier))

-----------------------------------------------------------------------------
(* RateLimitMiddleware (app/core/middleware.py)                            *)

\* The clients' addresses.
IPs == { "10.0.0.1", "10.0.0.2" }

\* requests_per_minute as given to the constructor (main.py passes 60).
requests_per_minute == 1

\* timedelta(minutes=1), in seconds
Window == 60

\* timedelta(minutes=5), in seconds
BlockFor == 300

\* The steps the clock is seen to make between two events.
Elapse == { 30, 300 }

\* The clock stops here.
MaxTime == 360

\* Requests dispatched in a run.
MaxRequests == 3

\* RateLimitMiddleware.__init__ (lines 71-75), before any request.
MiddlewareIdle ==
  /\ TESTING = "None"
  /\ now = 0
  /\ RateLimitMiddleware_requests = [ ip \in IPs |-> << >> ]
  /\ RateLimitMiddleware_blocked_ips = << >>
  /\ inflight = [ ip \in IPs |-> 0 ]
  /\ served = << >>

\* How a dispatched request is answered.
Served(client_ip, status) == [ ip |-> client_ip, at |-> now, status |-> status ]

\* Lines 102-105: the admitted requests younger than a minute.
Recent(client_ip) ==
  SelectSeq(RateLimitMiddleware_requests[client_ip],
            LAMBDA req_time : now - req_time < Window)

\* Lines 87-98: the client is blocked and the block has not run out.
Blocked(client_ip) ==
  /\ client_ip \in DOMAIN RateLimitMiddleware_blocked_ips
  /\ now < RateLimitMiddleware_blocked_ips[client_ip]

\* `del self.blocked_ips[client_ip]` (line 98) where the key is there.
Unblocked(client_ip) ==
  [ ip \in DOMAIN RateLimitMiddleware_blocked_ips \ { client_ip } |->
      RateLimitMiddleware_blocked_ips[ip] ]

\* Mutant of LimitReached: one request more gets through.
LimitReached_over(recent) == Len(recent) > requests_per_minute

\* Line 108: `len(self.requests[client_ip]) >= self.requests_per_minute`
LimitReached(recent) == Len(recent) >= requests_per_minute

\* Lines 80-81: rate limiting is skipped, the request goes to call_next.
dispatch_81(client_ip) ==
  /\ TESTING = "true"
  /\ served' = Append(served, Served(client_ip, 200))
  /\ inflight' = [ inflight EXCEPT ![client_ip] = @ + 1 ]
  /\ UNCHANGED << RateLimitMiddleware_requests, RateLimitMiddleware_blocked_ips >>

\* Lines 87-95: a blocked client is answered 429.
dispatch_89(client_ip) ==
  /\ TESTING # "true"
  /\ Blocked(client_ip)
  /\ served' = Append(served, Served(client_ip, 429))
  /\ UNCHANGED << RateLimitMiddleware_requests, RateLimitMiddleware_blocked_ips, inflight >>

\* Lines 96-119: old requests are dropped; the limit is reached, the client
\* is blocked and answered 429.
dispatch_113(client_ip) ==
  /\ TESTING # "true"
  /\ ~ Blocked(client_ip)
  /\ LimitReached(Recent(client_ip))
  /\ RateLimitMiddleware_requests' =
       [ RateLimitMiddleware_requests EXCEPT ![client_ip] = Recent(client_ip) ]
  /\ RateLimitMiddleware_blocked_ips' =
       Unblocked(client_ip) @@ (client_ip :> now + BlockFor)
  /\ served' = Append(served, Served(client_ip, 429))
  /\ UNCHANGED inflight

\* Lines 96-125: old requests are dropped, this one is added and goes to
\* call_next.
dispatch_125(client_ip) ==
  /\ TESTING # "true"
  /\ ~ Blocked(client_ip)
  /\ ~ LimitReached(Recent(client_ip))
  /\ RateLimitMiddleware_requests' =
       [ RateLimitMiddleware_requests EXCEPT ![client_ip] = Append(Recent(client_ip), now) ]
  /\ RateLimitMiddleware_blocked_ips' = Unblocked(client_ip)
  /\ served' = Append(served, Served(client_ip, 200))
  /\ inflight' = [ inflight EXCEPT ![client_ip] = @ + 1 ]

\* RateLimitMiddleware.dispatch up to its first await: nothing else runs
\* on the event loop in between.
Dispatch ==
  /\ Len(served) < MaxRequests
  /\ \E client_ip \in IPs :
       \/ dispatch_81(client_ip)
       \/ dispatch_89(client_ip)
       \/ dispatch_113(client_ip)
       \/ dispatch_125(client_ip)
  /\ UNCHANGED << classVars, threadVars, lastCall, TESTING, now >>

\* call_next returns to a dispatch that awaits it (lines 81, 125-134): the
\* headers are set and the response goes out.
Respond ==
  /\ \E client_ip \in IPs :
       /\ inflight[client_ip] > 0
       /\ inflight' = [ inflight EXCEPT ![client_ip] = @ - 1 ]
  /\ UNCHANGED << classVars, threadVars, lastCall, TESTING, now,
                  RateLimitMiddleware_requests, RateLimitMiddleware_blocked_ips, served >>

\* Time passes.
Tick ==
  /\ \E d \in Elapse :
       /\ now + d <= MaxTime
       /\ now' = now + d
  /\ UNCHANGED << classVars, threadVars, lastCall, TESTING,
                  RateLimitMiddleware_requests, RateLimitMiddleware_blocked_ips,
                  inflight, served >>

-----------------------------------------------------------------------------
(* Bounds *)

\* Threads calling into the pipeline.
MaxThreads == 2

\* Top-level calls of get_instance / analyze_emotion / normalize_slang in a run.
MaxCalls == 3

\* Candidate spans in one answer of the tagger.
MaxCandidates == 2

Threads == 1..MaxThreads

-----------------------------------------------------------------------------
(* Lazy construction: EmotionEngine.get_instance / __init__ and            *)
(* SlangNormalizer.get_instance / __init__ / _load_models, one action per   *)
(* statement, so that threads interleave between statements.  pc values     *)
(* are the source line a thread is about to execute (E: emotion_engine.py,  *)
(* S: slang_normalizer.py).                                                 *)

EngineOps == { "EmotionEngine.get_instance", "analyze_emotion" }

NormalizerOps == { "SlangNormalizer.get_instance", "normalize_slang" }

NoFrame ==
  [ top |-> "none",            \* the top-level call
    nested |-> FALSE,          \* SlangNormalizer.get_instance was called by EmotionEngine.__init__
    eobj |-> 0,                \* the EmotionEngine object under construction
    sobj |-> 0,                \* the SlangNormalizer object under construction
    classifierFailed |-> FALSE,\* the classifier's construction failed in this call
    slangFailed |-> FALSE ]    \* _load_models failed in this call

NoRet ==
  [ op |-> "none", raised |-> FALSE, obj |-> 0,
    classifierFailed |-> FALSE, slangFailed |-> FALSE ]

NoCall ==
  [ op |-> "none", text |-> << >>, flag |-> FALSE,
    exc |-> FALSE, val |-> << >>, events |-> << >> ]

\* How the top-level call of thread t ends.
Return(t, raised, obj) ==
  [ op |-> frame[t].top, raised |-> raised, obj |-> obj,
    classifierFailed |-> frame[t].classifierFailed,
    slangFailed |-> frame[t].slangFailed ]

\* A caller starts one of the top-level calls `ops`.  lastCall is the
\* pipeline call of the latest top-level call, so none yet.
Call(t, ops) ==
  /\ pc[t] = "idle"
  /\ hist.calls < MaxCalls
  /\ \E op \in ops :
       /\ frame' = [ frame EXCEPT ![t] = [ NoFrame EXCEPT !.top = op ] ]
       /\ pc' = [ pc EXCEPT ![t] = IF op \in EngineOps THEN "E27" ELSE "S39" ]
  /\ hist' = [ hist EXCEPT !.calls = @ + 1 ]
  /\ lastCall' = NoCall
  /\ UNCHANGED << classVars, ret >>
  /\ UNCHANGED middlewareVars

\* Mutant of EmotionEngine_get_instance_27: the cached instance is ignored.
EmotionEngine_get_instance_27_uncached(t) ==
  /\ pc[t] = "E27"
  /\ pc' = [ pc EXCEPT ![t] = "E32" ]
  /\ frame' = [ frame EXCEPT ![t].eobj = hist.nextId ]
  /\ hist' = [ hist EXCEPT !.nextId = @ + 1 ]
  /\ UNCHANGED << classVars, ret, lastCall >>
  /\ UNCHANGED middlewareVars

\* emotion_engine.py:27-28  `if cls._instance is None:` and, if so, the
\* allocation of the object EmotionEngine() will initialise.
EmotionEngine_get_instance_27(t) ==
  /\ pc[t] = "E27"
  /\ IF EmotionEngine_instance = 0
     THEN /\ pc' = [ pc EXCEPT ![t] = "E32" ]
          /\ frame' = [ frame EXCEPT ![t].eobj = hist.nextId ]
          /\ hist' = [ hist EXCEPT !.nextId = @ + 1 ]
     ELSE /\ pc' = [ pc EXCEPT ![t] = "E29" ]
          /\ UNCHANGED << frame, hist >>
  /\ UNCHANGED << classVars, ret, lastCall >>
  /\ UNCHANGED middlewareVars

\* emotion_engine.py:32  `if EmotionEngine._classifier is None:`
EmotionEngine_init_32(t) ==
  /\ pc[t] = "E32"
  /\ pc' = [ pc EXCEPT ![t] = IF EmotionEngine_classifier = "None" THEN "E38" ELSE "E50" ]
  /\ UNCHANGED << classVars, frame, ret, hist, lastCall >>
  /\ UNCHANGED middlewareVars

\* emotion_engine.py:38-43  the classifier pipeline is constructed and assigned.
EmotionEngine_init_38_ok(t) ==
  /\ pc[t] = "E38"
  /\ EmotionEngine_classifier' = "pipeline"
  /\ hist' = [ hist EXCEPT !.classifierLoads = @ + 1, !.classifierLoaded = @ + 1 ]
  /\ pc' = [ pc EXCEPT ![t] = "E50" ]
  /\ UNCHANGED << EmotionEngine_instance, EmotionEngine_slang_normalizer,
                  SlangNormalizer_instance, SlangNormalizer_model, SlangNormalizer_tokenizer,
                  SlangNormalizer_slang_detector, SlangNormalizer_slang_dict,
                  frame, ret, lastCall >>
  /\ UNCHANGED middlewareVars

\* emotion_engine.py:44-47  its construction fails: logged and raised again,
\* out of __init__ and out of get_instance.
EmotionEngine_init_38_fail(t) ==
  /\ pc[t] = "E38"
  /\ hist' = [ hist EXCEPT !.classifierLoads = @ + 1, !.failures = @ + 1 ]
  /\ ret' = [ ret EXCEPT ![t] = [ Return(t, TRUE, 0) EXCEPT !.classifierFailed = TRUE ] ]
  /\ frame' = [ frame EXCEPT ![t] = NoFrame ]
  /\ pc' = [ pc EXCEPT ![t] = "idle" ]
  /\ UNCHANGED << classVars, lastCall >>
  /\ UNCHANGED middlewareVars

\* emotion_engine.py:50-52  `if EmotionEngine._slang_normalizer is None:` and,
\* if so, the call of SlangNormalizer.get_instance().
EmotionEngine_init_50(t) ==
  /\ pc[t] = "E50"
  /\ IF EmotionEngine_slang_normalizer = 0
     THEN /\ pc' = [ pc EXCEPT ![t] = "S39" ]
          /\ frame' = [ frame EXCEPT ![t].nested = TRUE ]
     ELSE /\ pc' = [ pc EXCEPT ![t] = "E28" ]
          /\ UNCHANGED frame
  /\ UNCHANGED << classVars, ret, hist, lastCall >>
  /\ UNCHANGED middlewareVars

\* emotion_engine.py:52  `EmotionEngine._slang_normalizer = ` the instance returned.
EmotionEngine_init_52(t) ==
  /\ pc[t] = "E52"
  /\ EmotionEngine_slang_normalizer' = frame[t].sobj
  /\ pc' = [ pc EXCEPT ![t] = "E28" ]
  /\ frame' = [ frame EXCEPT ![t].nested = FALSE ]
  /\ UNCHANGED << EmotionEngine_instance, EmotionEngine_classifier,
                  SlangNormalizer_instance, SlangNormalizer_model, SlangNormalizer_tokenizer,
                  SlangNormalizer_slang_detector, SlangNormalizer_slang_dict,
                  ret, hist, lastCall >>
  /\ UNCHANGED middlewareVars

\* emotion_engine.py:54-57  the exception of SlangNormalizer.get_instance is
\* caught: a warning, and `EmotionEngine._slang_normalizer = None`.
EmotionEngine_init_54(t) ==
  /\ pc[t] = "E54"
  /\ EmotionEngine_slang_normalizer' = 0
  /\ pc' = [ pc EXCEPT ![t] = "E28" ]
  /\ frame' = [ frame EXCEPT ![t].nested = FALSE ]
  /\ UNCHANGED << EmotionEngine_instance, EmotionEngine_classifier,
                  SlangNormalizer_instance, SlangNormalizer_model, SlangNormalizer_tokenizer,
                  SlangNormalizer_slang_detector, SlangNormalizer_slang_dict,
                  ret, hist, lastCall >>
  /\ UNCHANGED middlewareVars

\* emotion_engine.py:28  `cls._instance = ` the object __init__ has finished.
EmotionEngine_get_instance_28(t) ==
  /\ pc[t] = "E28"
  /\ EmotionEngine_instance' = frame[t].eobj
  /\ pc' = [ pc EXCEPT ![t] = "E29" ]
  /\ UNCHANGED << EmotionEngine_classifier, EmotionEngine_slang_normalizer,
                  SlangNormalizer_instance, SlangNormalizer_model, SlangNormalizer_tokenizer,
                  SlangNormalizer_slang_detector, SlangNormalizer_slang_dict,
                  frame, ret, hist, lastCall >>
  /\ UNCHANGED middlewareVars

\* emotion_engine.py:29  `return cls._instance`; analyze_emotion goes on to
\* line 172 with it.
EmotionEngine_get_instance_29(t) ==
  /\ pc[t] = "E29"
  /\ hist' = [ hist EXCEPT !.engines = @ \cup { EmotionEngine_instance } ]
  /\ IF frame[t].top = "analyze_emotion"
     THEN /\ pc' = [ pc EXCEPT ![t] = "E172" ]
          /\ frame' = [ frame EXCEPT ![t].eobj = EmotionEngine_instance ]
          /\ UNCHANGED ret
     ELSE /\ pc' = [ pc EXCEPT ![t] = "idle" ]
          /\ ret' = [ ret EXCEPT ![t] = Return(t, FALSE, EmotionEngine_instance) ]
          /\ frame' = [ frame EXCEPT ![t] = NoFrame ]
  /\ UNCHANGED << classVars, lastCall >>
  /\ UNCHANGED middlewareVars

\* slang_normalizer.py:39-40  `if cls._instance is None:` and, if so, the
\* allocation of the object SlangNormalizer() will initialise.
SlangNormalizer_get_instance_39(t) ==
  /\ pc[t] = "S39"
  /\ IF SlangNormalizer_instance = 0
     THEN /\ pc' = [ pc EXCEPT ![t] = "S44" ]
          /\ frame' = [ frame EXCEPT ![t].sobj = hist.nextId ]
          /\ hist' = [ hist EXCEPT !.nextId = @ + 1 ]
     ELSE /\ pc' = [ pc EXCEPT ![t] = "S41" ]
          /\ UNCHANGED << frame, hist >>
  /\ UNCHANGED << classVars, ret, lastCall >>
  /\ UNCHANGED middlewareVars

\* slang_normalizer.py:44-45  `if SlangNormalizer._model is None:` and, if so,
\* the call of _load_models.
SlangNormalizer_init_44(t) ==
  /\ pc[t] = "S44"
  /\ IF SlangNormalizer_model = "None"
     THEN /\ pc' = [ pc EXCEPT ![t] = "S61" ]
          /\ hist' = [ hist EXCEPT !.slangLoads = @ + 1 ]
     ELSE /\ pc' = [ pc EXCEPT ![t] = "S40" ]
          /\ UNCHANGED hist
  /\ UNCHANGED << classVars, frame, ret, lastCall >>
  /\ UNCHANGED middlewareVars

\* A statement of _load_models raises: on to the handler at line 83.
LoadFails(t) ==
  /\ pc' = [ pc EXCEPT ![t] = "S86" ]
  /\ frame' = [ frame EXCEPT ![t].slangFailed = TRUE ]
  /\ hist' = [ hist EXCEPT !.failures = @ + 1 ]
  /\ UNCHANGED << classVars, ret, lastCall >>
  /\ UNCHANGED middlewareVars

\* slang_normalizer.py:61  the tokenizer is loaded and assigned, or the load raises.
SlangNormalizer_load_models_61(t) ==
  /\ pc[t] = "S61"
  /\ \/ /\ SlangNormalizer_tokenizer' = "tokenizer"
        /\ pc' = [ pc EXCEPT ![t] = "S62" ]
        /\ UNCHANGED << EmotionEngine_instance, EmotionEngine_classifier,
                        EmotionEngine_slang_normalizer, SlangNormalizer_instance,
                        SlangNormalizer_model, SlangNormalizer_slang_detector,
                        SlangNormalizer_slang_dict, frame, ret, hist, lastCall >>
     \/ LoadFails(t)
  /\ UNCHANGED middlewareVars

\* slang_normalizer.py:62  the tagger model is loaded and assigned, or the load raises.
SlangNormalizer_load_models_62(t) ==
  /\ pc[t] = "S62"
  /\ \/ /\ SlangNormalizer_model' = "model"
        /\ pc' = [ pc EXCEPT ![t] = "S65" ]
        /\ UNCHANGED << EmotionEngine_instance, EmotionEngine_classifier,
                        EmotionEngine_slang_normalizer, SlangNormalizer_instance,
                        SlangNormalizer_tokenizer, SlangNormalizer_slang_detector,
                        SlangNormalizer_slang_dict, frame, ret, hist, lastCall >>
     \/ LoadFails(t)
  /\ UNCHANGED middlewareVars

\* slang_normalizer.py:65-70  the inference pipeline is built and assigned, or
\* pipeline() raises.
SlangNormalizer_load_models_65(t) ==
  /\ pc[t] = "S65"
  /\ \/ /\ SlangNormalizer_slang_detector' = "pipeline"
        /\ pc' = [ pc EXCEPT ![t] = "S79" ]
        /\ UNCHANGED << EmotionEngine_instance, EmotionEngine_classifier,
                        EmotionEngine_slang_normalizer, SlangNormalizer_instance,
                        SlangNormalizer_model, SlangNormalizer_tokenizer,
                        SlangNormalizer_slang_dict, frame, ret, hist, lastCall >>
     \/ LoadFails(t)
  /\ UNCHANGED middlewareVars

\* slang_normalizer.py:77-81  the lexicon file is read and assigned, which
\* ends _load_models; or open() / json.load raises.
SlangNormalizer_load_models_79(t) ==
  /\ pc[t] = "S79"
  /\ \/ /\ SlangNormalizer_slang_dict' = "loaded"
        /\ pc' = [ pc EXCEPT ![t] = "S40" ]
        /\ hist' = [ hist EXCEPT !.slangLoaded = @ + 1 ]
        /\ UNCHANGED << EmotionEngine_instance, EmotionEngine_classifier,
                        EmotionEngine_slang_normalizer, SlangNormalizer_instance,
                        SlangNormalizer_model, SlangNormalizer_tokenizer,
                        SlangNormalizer_slang_detector, frame, ret, lastCall >>
     \/ LoadFails(t)
  /\ UNCHANGED middlewareVars

\* slang_normalizer.py:86  `SlangNormalizer._slang_detector = None`
SlangNormalizer_load_models_86(t) ==
  /\ pc[t] = "S86"
  /\ SlangNormalizer_slang_detector' = "None"
  /\ pc' = [ pc EXCEPT ![t] = "S87" ]
  /\ UNCHANGED << EmotionEngine_instance, EmotionEngine_classifier,
                  EmotionEngine_slang_normalizer, SlangNormalizer_instance,
                  SlangNormalizer_model, SlangNormalizer_tokenizer,
                  SlangNormalizer_slang_dict, frame, ret, hist, lastCall >>
  /\ UNCHANGED middlewareVars

\* Mutant of SlangNormalizer_load_models_87: the handler does not raise again.
SlangNormalizer_load_models_87_swallow(t) ==
  /\ pc[t] = "S87"
  /\ SlangNormalizer_slang_dict' = "empty"
  /\ pc' = [ pc EXCEPT ![t] = "S40" ]
  /\ UNCHANGED << EmotionEngine_instance, EmotionEngine_classifier,
                  EmotionEngine_slang_normalizer, SlangNormalizer_instance,
                  SlangNormalizer_model, SlangNormalizer_tokenizer,
                  SlangNormalizer_slang_detector, frame, ret, hist, lastCall >>
  /\ UNCHANGED middlewareVars

\* slang_normalizer.py:87-88  `SlangNormalizer._slang_dict = {}` and
\* `raise e`: out of _load_models, __init__ and get_instance, to the handler
\* of EmotionEngine.__init__ or to the top-level caller.
SlangNormalizer_load_models_87(t) ==
  /\ pc[t] = "S87"
  /\ SlangNormalizer_slang_dict' = "empty"
  /\ IF frame[t].nested
     THEN /\ pc' = [ pc EXCEPT ![t] = "E54" ]
          /\ frame' = [ frame EXCEPT ![t].sobj = 0 ]
          /\ UNCHANGED ret
     ELSE /\ pc' = [ pc EXCEPT ![t] = "idle" ]
          /\ ret' = [ ret EXCEPT ![t] = Return(t, TRUE, 0) ]
          /\ frame' = [ frame EXCEPT ![t] = NoFrame ]
  /\ UNCHANGED << EmotionEngine_instance, EmotionEngine_classifier,
                  EmotionEngine_slang_normalizer, SlangNormalizer_instance,
                  SlangNormalizer_model, SlangNormalizer_tokenizer,
                  SlangNormalizer_slang_detector, hist, lastCall >>
  /\ UNCHANGED middlewareVars

\* slang_normalizer.py:40  `cls._instance = ` the object __init__ has finished.
SlangNormalizer_get_instance_40(t) ==
  /\ pc[t] = "S40"
  /\ SlangNormalizer_instance' = frame[t].sobj
  /\ pc' = [ pc EXCEPT ![t] = "S41" ]
  /\ UNCHANGED << EmotionEngine_instance, EmotionEngine_classifier,
                  EmotionEngine_slang_normalizer, SlangNormalizer_model,
                  SlangNormalizer_tokenizer, SlangNormalizer_slang_detector,
                  SlangNormalizer_slang_dict, frame, ret, hist, lastCall >>
  /\ UNCHANGED middlewareVars

\* slang_normalizer.py:41  `return cls._instance`: to EmotionEngine.__init__,
\* to normalize_slang (which goes on to line 296 with it) or to the caller.
SlangNormalizer_get_instance_41(t) ==
  /\ pc[t] = "S41"
  /\ hist' = [ hist EXCEPT !.normalizers = @ \cup { SlangNormalizer_instance } ]
  /\ IF frame[t].nested
     THEN /\ pc' = [ pc EXCEPT ![t] = "E52" ]
          /\ frame' = [ frame EXCEPT ![t].sobj = SlangNormalizer_instance ]
          /\ UNCHANGED ret
     ELSE IF frame[t].top = "normalize_slang"
     THEN /\ pc' = [ pc EXCEPT ![t] = "S296" ]
          /\ frame' = [ frame EXCEPT ![t].sobj = SlangNormalizer_instance ]
          /\ UNCHANGED ret
     ELSE /\ pc' = [ pc EXCEPT ![t] = "idle" ]
          /\ ret' = [ ret EXCEPT ![t] = Return(t, FALSE, SlangNormalizer_instance) ]
          /\ frame' = [ frame EXCEPT ![t] = NoFrame ]
  /\ UNCHANGED << classVars, lastCall >>
  /\ UNCHANGED middlewareVars

-----------------------------------------------------------------------------
(* Inputs: the texts callers pass and the answers the two models give.     *)

NglFr == << "n","g","l"," ","F","r" >>

KapZz == << "K","A","P"," ","z","z" >>

W == << "w" >>

HashW == << "#","w" >>

\* A text one character longer than the classifier's budget, beginning
\* with slang.
LongText ==
  << "n","g","l" >> \o [ i \in 1..(TruncateChars - 2) |-> " " ]

Texts == { << >>, << " ", "\n" >>, NglFr, KapZz, W, HashW, LongText }

\* The terms the dictionary methods are called with directly.
Terms ==
  { << "f","r" >>, << "F","R" >>, << "f","r","r" >>, << "K","a","p" >>,
    << "w" >>, << "W" >>, << "d","u","b" >>, << "z","z" >>, HashW }

\* The texts the convenience functions are called with in the construction
\* specifications.
HelperTexts == { << >>, W }

\* The maximal runs of non-whitespace characters of a text, as 0-based
\* half-open offsets.
TokenEnd(text, start) ==
  CHOOSE end \in (start + 1)..Len(text) :
    /\ \A i \in (start + 1)..end : text[i] \notin Whitespace
    /\ end = Len(text) \/ text[end + 1] \in Whitespace

TokenSpans(text) ==
  { << start, TokenEnd(text, start) >> :
      start \in { s \in 0..(Len(text) - 1) :
                    /\ text[s + 1] \notin Whitespace
                    /\ s = 0 \/ text[s] \in Whitespace } }

\* How the tagger's pipeline may render the word of a span: the bare
\* substring, or the substring behind the space or the tokenization
\* artifact of its first token.
Prefixes == { << >>, << " " >>, << GDot >> }

\* The confidences the tagger may give a span, in hundredths.
Scores == { 10, 99 }

\* The candidate spans the tagger may propose on a text.
Candidates(text) ==
  IF text = None THEN { }
  ELSE { [ word |-> prefix \o SubSeq(text, sp[1] + 1, sp[2]),
           start |-> sp[1], end |-> sp[2], score |-> score ] :
         sp \in TokenSpans(text), prefix \in Prefixes, score \in Scores }

\* What one invocation of the tagger may do: fault, or answer any list of
\* at most MaxCandidates candidates (in any order, overlapping or repeated).
TaggerAnswers(text) ==
  { [ fault |-> TRUE, results |-> << >> ] }
  \cup { [ fault |-> FALSE, results |-> r ] :
         r \in UNION { [ 1..n -> Candidates(text) ] : n \in 0..MaxCandidates } }

\* The tagger's answer does not matter to a call that cannot reach it.
TaggerAnswersIf(reachable, text) ==
  IF reachable THEN TaggerAnswers(text) ELSE { [ fault |-> FALSE, results |-> << >> ] }

\* What one invocation of the classifier may do: fault, or answer a list
\* holding the list of (label, score) of the text.
ClassifierAnswers ==
  { [ fault |-> TRUE, results |-> << >> ],
    [ fault |-> FALSE, results |-> << >> ],
    [ fault |-> FALSE, results |-> << << >> >> ],
    [ fault |-> FALSE,
      results |-> << << [ label |-> "joy", score |-> 90 ],
                        [ label |-> "anger", score |-> 5 ],
                        [ label |-> "neutral", score |-> 10 ] >> >> ],
    [ fault |-> FALSE,
      results |-> << << [ label |-> "joy", score |-> 10 ],
                        [ label |-> "anger", score |-> 20 ],
                        [ label |-> "neutral", score |-> 20 ] >> >> ],
    [ fault |-> FALSE,
      results |-> << << [ label |-> "joy", score |-> 40 ],
                        [ label |-> "love", score |-> 95 ],
                        [ label |-> "anger", score |-> 5 ] >> >> ] }

-----------------------------------------------------------------------------
(* Pipeline calls on the instances get_instance has handed out.  The       *)
(* methods read only class attributes, so a call is one step.  A caller    *)
(* makes any number of calls, one after the other: lastCall holds the      *)
(* result of the latest until the caller lets go of it.                    *)

\* engine.analyze(text, normalize_slang), on the engine get_instance returns
Analyze ==
  /\ EmotionEngine_instance # 0
  /\ lastCall = NoCall
  /\ \E text \in Texts \cup { None }, normalize_slang \in BOOLEAN,
        classifier \in ClassifierAnswers :
       \E tagger \in TaggerAnswersIf(normalize_slang /\ EmotionEngine_slang_normalizer # 0
                                       /\ SlangNormalizer_slang_detector # "None", text) :
         lastCall' = Completed("analyze", text, normalize_slang,
                               analyze(text, normalize_slang, tagger, classifier))
  /\ UNCHANGED << classVars, threadVars >>
  /\ UNCHANGED middlewareVars

\* normalizer.detect_slang(text), on the normalizer get_instance returns
DetectSlang ==
  /\ SlangNormalizer_instance # 0
  /\ lastCall = NoCall
  /\ \E text \in Texts :
       \E tagger \in TaggerAnswersIf(SlangNormalizer_slang_detector # "None", text) :
         lastCall' = Completed("detect_slang", text, FALSE, detect_slang(text, tagger))
  /\ UNCHANGED << classVars, threadVars >>
  /\ UNCHANGED middlewareVars

\* normalizer.normalize_text(text, keep_original)
NormalizeText ==
  /\ SlangNormalizer_instance # 0
  /\ lastCall = NoCall
  /\ \E text \in Texts, keep_original \in BOOLEAN :
       \E tagger \in TaggerAnswersIf(SlangNormalizer_slang_detector # "None", text) :
         lastCall' = Completed("normalize_text", text, keep_original,
                               normalize_text(text, keep_original, tagger))
  /\ UNCHANGED << classVars, threadVars >>
  /\ UNCHANGED middlewareVars

\* normalizer._exists_in_dictionary(term), as test_slang_fix.py calls it
ExistsInDictionary ==
  /\ SlangNormalizer_instance # 0
  /\ lastCall = NoCall
  /\ \E term \in Terms :
       lastCall' = Completed("_exists_in_dictionary", term, FALSE,
                             _exists_in_dictionary(term))
  /\ UNCHANGED << classVars, threadVars >>
  /\ UNCHANGED middlewareVars

\* normalizer._lookup_slang(term)
LookupSlang ==
  /\ SlangNormalizer_instance # 0
  /\ lastCall = NoCall
  /\ \E term \in Terms :
       lastCall' = Completed("_lookup_slang", term, FALSE,
                             Ok(_lookup_slang(term), << >>))
  /\ UNCHANGED << classVars, threadVars >>
  /\ UNCHANGED middlewareVars

\* The caller is done with the result of its latest call (`result` is bound
\* anew on the next pass of the loop).
Discard ==
  /\ lastCall # NoCall
  /\ lastCall' = NoCall
  /\ UNCHANGED << classVars, threadVars >>
  /\ UNCHANGED middlewareVars

\* emotion_engine.py:172  `return engine.analyze(text)` of analyze_emotion
analyze_emotion_172(t) ==
  /\ pc[t] = "E172"
  /\ \E text \in HelperTexts, classifier \in ClassifierAnswers :
       \E tagger \in TaggerAnswersIf(EmotionEngine_slang_normalizer # 0
                                       /\ SlangNormalizer_slang_detector # "None", text) :
         lastCall' = Completed("analyze_emotion", text, TRUE,
                               analyze(text, TRUE, tagger, classifier))
  /\ ret' = [ ret EXCEPT ![t] = Return(t, lastCall'.exc, frame[t].eobj) ]
  /\ frame' = [ frame EXCEPT ![t] = NoFrame ]
  /\ pc' = [ pc EXCEPT ![t] = "idle" ]
  /\ UNCHANGED << classVars, hist >>
  /\ UNCHANGED middlewareVars

\* slang_normalizer.py:296  `return normalizer.normalize_text(text, keep_original)`
\* of normalize_slang
normalize_slang_296(t) ==
  /\ pc[t] = "S296"
  /\ \E text \in HelperTexts, keep_original \in BOOLEAN :
       \E tagger \in TaggerAnswersIf(SlangNormalizer_slang_detector # "None", text) :
         lastCall' = Completed("normalize_slang", text, keep_original,
                               normalize_text(text, keep_original, tagger))
  /\ ret' = [ ret EXCEPT ![t] = Return(t, lastCall'.exc, frame[t].sobj) ]
  /\ frame' = [ frame EXCEPT ![t] = NoFrame ]
  /\ pc' = [ pc EXCEPT ![t] = "idle" ]
  /\ UNCHANGED << classVars, hist >>
  /\ UNCHANGED middlewareVars

-----------------------------------------------------------------------------
(* Specifications *)

NoHist ==
  [ calls |-> 0,              \* top-level calls started
    nextId |-> 1,             \* the id of the next object allocated
    classifierLoads |-> 0,    \* runs of the classifier's constructor (line 38)
    classifierLoaded |-> 0,   \* ... that succeeded
    slangLoads |-> 0,         \* runs of _load_models
    slangLoaded |-> 0,        \* ... that succeeded
    failures |-> 0,           \* loader statements that raised
    engines |-> { },          \* the objects EmotionEngine.get_instance has returned
    normalizers |-> { },      \* the objects SlangNormalizer.get_instance has returned
    first |-> NoCall ]        \* the analyze call whose result the caller has kept

\* A fresh process: the class attributes as the class bodies set them.
FreshInit ==
  /\ EmotionEngine_instance = 0
  /\ EmotionEngine_classifier = "None"
  /\ EmotionEngine_slang_normalizer = 0
  /\ SlangNormalizer_instance = 0
  /\ SlangNormalizer_model = "None"
  /\ SlangNormalizer_tokenizer = "None"
  /\ SlangNormalizer_slang_detector = "None"
  /\ SlangNormalizer_slang_dict = "None"
  /\ pc = [ t \in Threads |-> "idle" ]
  /\ frame = [ t \in Threads |-> NoFrame ]
  /\ ret = [ t \in Threads |-> NoRet ]
  /\ hist = NoHist
  /\ lastCall = NoCall
  /\ MiddlewareIdle

\* One statement of thread t inside get_instance.
Step(t) ==
  \/ EmotionEngine_get_instance_27(t)
  \/ EmotionEngine_init_32(t)
  \/ EmotionEngine_init_38_ok(t)
  \/ EmotionEngine_init_38_fail(t)
  \/ EmotionEngine_init_50(t)
  \/ EmotionEngine_init_52(t)
  \/ EmotionEngine_init_54(t)
  \/ EmotionEngine_get_instance_28(t)
  \/ EmotionEngine_get_instance_29(t)
  \/ SlangNormalizer_get_instance_39(t)
  \/ SlangNormalizer_init_44(t)
  \/ SlangNormalizer_load_models_61(t)
  \/ SlangNormalizer_load_models_62(t)
  \/ SlangNormalizer_load_models_65(t)
  \/ SlangNormalizer_load_models_79(t)
  \/ SlangNormalizer_load_models_86(t)
  \/ SlangNormalizer_load_models_87(t)
  \/ SlangNormalizer_get_instance_40(t)
  \/ SlangNormalizer_get_instance_41(t)

\* Sequential use: one thread makes all the calls, one after the other.
MainThread == CHOOSE t \in Threads : \A u \in Threads : t <= u

SeqCall(t) ==
  /\ t = MainThread
  /\ Call(t, EngineOps \cup NormalizerOps)

SeqNext ==
  \E t \in Threads :
    \/ SeqCall(t)
    \/ Step(t)
    \/ analyze_emotion_172(t)
    \/ normalize_slang_296(t)

SpecSeq == FreshInit /\ [][SeqNext]_vars

\* Concurrent first use: threads call get_instance and interleave between
\* statements (nothing in either class takes a lock).
ConcNext ==
  \E t \in Threads :
    \/ Call(t, { "EmotionEngine.get_instance", "SlangNormalizer.get_instance" })
    \/ Step(t)

SpecConc == FreshInit /\ [][ConcNext]_vars

\* The states construction leaves behind, on which the pipeline is called.
\* Each is a state SpecSeq reaches: it violates NeverLoaded, NeverDegraded
\* and NeverBroken.

\* EmotionEngine.get_instance() with every load succeeding.
Loaded ==
  /\ EmotionEngine_instance = 1
  /\ EmotionEngine_classifier = "pipeline"
  /\ EmotionEngine_slang_normalizer = 2
  /\ SlangNormalizer_instance = 2
  /\ SlangNormalizer_model = "model"
  /\ SlangNormalizer_tokenizer = "tokenizer"
  /\ SlangNormalizer_slang_detector = "pipeline"
  /\ SlangNormalizer_slang_dict = "loaded"
  /\ hist = [ NoHist EXCEPT !.calls = 1, !.nextId = 3,
                            !.classifierLoads = 1, !.classifierLoaded = 1,
                            !.slangLoads = 1, !.slangLoaded = 1,
                            !.engines = { 1 }, !.normalizers = { 2 } ]
  /\ ret = [ t \in Threads |->
             IF t = MainThread
             THEN [ NoRet EXCEPT !.op = "EmotionEngine.get_instance", !.obj = 1 ]
             ELSE NoRet ]

\* EmotionEngine.get_instance() with the tokenizer failing to load: the
\* engine goes on without a slang normalizer.
Degraded ==
  /\ EmotionEngine_instance = 1
  /\ EmotionEngine_classifier = "pipeline"
  /\ EmotionEngine_slang_normalizer = 0
  /\ SlangNormalizer_instance = 0
  /\ SlangNormalizer_model = "None"
  /\ SlangNormalizer_tokenizer = "None"
  /\ SlangNormalizer_slang_detector = "None"
  /\ SlangNormalizer_slang_dict = "empty"
  /\ hist = [ NoHist EXCEPT !.calls = 1, !.nextId = 3,
                            !.classifierLoads = 1, !.classifierLoaded = 1,
                            !.slangLoads = 1, !.failures = 1,
                            !.engines = { 1 } ]
  /\ ret = [ t \in Threads |->
             IF t = MainThread
             THEN [ NoRet EXCEPT !.op = "EmotionEngine.get_instance", !.obj = 1,
                                 !.slangFailed = TRUE ]
             ELSE NoRet ]

\* SlangNormalizer.get_instance() with the lexicon failing to load, then
\* EmotionEngine.get_instance(): _model is set, so no load is tried again.
Broken ==
  /\ EmotionEngine_instance = 2
  /\ EmotionEngine_classifier = "pipeline"
  /\ EmotionEngine_slang_normalizer = 3
  /\ SlangNormalizer_instance = 3
  /\ SlangNormalizer_model = "model"
  /\ SlangNormalizer_tokenizer = "tokenizer"
  /\ SlangNormalizer_slang_detector = "None"
  /\ SlangNormalizer_slang_dict = "empty"
  /\ hist = [ NoHist EXCEPT !.calls = 2, !.nextId = 4,
                            !.classifierLoads = 1, !.classifierLoaded = 1,
                            !.slangLoads = 1, !.failures = 1,
                            !.engines = { 2 }, !.normalizers = { 3 } ]
  /\ ret = [ t \in Threads |->
             IF t = MainThread
             THEN [ NoRet EXCEPT !.op = "EmotionEngine.get_instance", !.obj = 2 ]
             ELSE NoRet ]

Quiet ==
  /\ pc = [ t \in Threads |-> "idle" ]
  /\ frame = [ t \in Threads |-> NoFrame ]
  /\ lastCall = NoCall
  /\ MiddlewareIdle

NeverLoaded == ~ (Loaded /\ Quiet)

NeverDegraded == ~ (Degraded /\ Quiet)

NeverBroken == ~ (Broken /\ Quiet)

Init == (Loaded \/ Degraded \/ Broken) /\ Quiet

Next ==
  \/ Analyze
  \/ DetectSlang
  \/ NormalizeText
  \/ ExistsInDictionary
  \/ LookupSlang
  \/ Discard

\* The pipeline in use after its construction.
Spec == Init /\ [][Next]_vars

-----------------------------------------------------------------------------
(* The same text analysed twice (test_multiple_analyses_same_text): the    *)
(* caller keeps the result of a first analyze, makes other calls, and      *)
(* calls analyze on that text again.  The models are deterministic: a      *)
(* model given an input it was given in the first call answers as then.    *)

\* The texts of the calls made between the two.
BetweenTexts == { << >> }

\* Two runs of invocations agree wherever the same model got the same input.
Deterministic(events1, events2) ==
  \A i \in 1..Len(events1), j \in 1..Len(events2) :
    (events1[i].model = events2[j].model /\ events1[i].input = events2[j].input)
      => events1[i].answer = events2[j].answer

\* `result1 = engine.analyze(text)`: a first analyze, of any text
AnalyzeFirst ==
  /\ hist.first = NoCall
  /\ Analyze

\* The caller keeps result1.
Remember ==
  /\ hist.first = NoCall
  /\ lastCall.op = "analyze"
  /\ hist' = [ hist EXCEPT !.first = lastCall ]
  /\ lastCall' = NoCall
  /\ UNCHANGED << classVars, pc, frame, ret >>
  /\ UNCHANGED middlewareVars

\* Mutant of NormalizeBetween: a fault of the tagger switches the detector
\* off for the calls that follow.
NormalizeBetween_disabling ==
  /\ hist.first # NoCall
  /\ SlangNormalizer_instance # 0
  /\ lastCall = NoCall
  /\ \E text \in BetweenTexts, keep_original \in BOOLEAN :
       \E tagger \in TaggerAnswersIf(SlangNormalizer_slang_detector # "None", text) :
         /\ lastCall' = Completed("normalize_text", text, keep_original,
                                  normalize_text(text, keep_original, tagger))
         /\ SlangNormalizer_slang_detector' =
              IF tagger.fault THEN "None" ELSE SlangNormalizer_slang_detector
  /\ UNCHANGED << EmotionEngine_instance, EmotionEngine_classifier,
                  EmotionEngine_slang_normalizer, SlangNormalizer_instance,
                  SlangNormalizer_model, SlangNormalizer_tokenizer,
                  SlangNormalizer_slang_dict, threadVars >>
  /\ UNCHANGED middlewareVars

\* normalizer.normalize_text(text, keep_original), between the two
NormalizeBetween ==
  /\ hist.first # NoCall
  /\ SlangNormalizer_instance # 0
  /\ lastCall = NoCall
  /\ \E text \in BetweenTexts, keep_original \in BOOLEAN :
       \E tagger \in TaggerAnswersIf(SlangNormalizer_slang_detector # "None", text) :
         lastCall' = Completed("normalize_text", text, keep_original,
                               normalize_text(text, keep_original, tagger))
  /\ UNCHANGED << classVars, threadVars >>
  /\ UNCHANGED middlewareVars

\* What the tagger may answer in the second call: as in the first, where
\* it was given the same text.
TaggerAgain ==
  IF \E i \in 1..Len(hist.first.events) : hist.first.events[i].model = "tagger"
  THEN { hist.first.events[i].answer :
           i \in { j \in 1..Len(hist.first.events) : hist.first.events[j].model = "tagger" } }
  ELSE TaggerAnswersIf(hist.first.flag /\ EmotionEngine_slang_normalizer # 0
                         /\ SlangNormalizer_slang_detector # "None",
                       hist.first.text)

\* `result2 = engine.analyze(text)`: analyze of the text of result1, the
\* models answering as they did on the inputs they were given then
AnalyzeAgain ==
  /\ hist.first # NoCall
  /\ lastCall = NoCall
  /\ \E classifier \in ClassifierAnswers :
       \E tagger \in TaggerAgain :
         /\ lastCall' = Completed("analyze", hist.first.text, hist.first.flag,
                                  analyze(hist.first.text, hist.first.flag, tagger, classifier))
         /\ Deterministic(hist.first.events, lastCall'.events)
  /\ UNCHANGED << classVars, threadVars >>
  /\ UNCHANGED middlewareVars

TwiceNext ==
  \/ AnalyzeFirst
  \/ Remember
  \/ NormalizeBetween
  \/ AnalyzeAgain
  \/ Discard

SpecTwice == Init /\ [][TwiceNext]_vars

-----------------------------------------------------------------------------
(* Properties of the pipeline in use (Spec) *)

\* The lexicon holds the term as a key, or as the lowercased form of a variant.
InLexicon(term) ==
  \E i \in 1..Len(LexiconFile) :
    \/ LexiconFile[i].key = term
    \/ \E j \in 1..Len(LexiconFile[i].variations) :
         lower(LexiconFile[i].variations[j]) = term

\* None, empty or whitespace only.
BlankInput(text) ==
  text = None \/ \A i \in 1..Len(text) : text[i] \in Whitespace

\* The detections the latest call returned.
Detections ==
  IF lastCall.exc THEN << >>
  ELSE IF lastCall.op = "detect_slang" THEN lastCall.val
  ELSE IF lastCall.op \in { "normalize_text", "normalize_slang" } THEN lastCall.val[2]
  ELSE IF lastCall.op \in { "analyze", "analyze_emotion" } THEN lastCall.val.slang_detected
  ELSE << >>

\* The invocations of a model in the latest call.
Invocations(model) == SelectSeq(lastCall.events, LAMBDA e : e.model = model)

TaggerFaulted ==
  \E i \in 1..Len(lastCall.events) :
    lastCall.events[i].model = "tagger" /\ lastCall.events[i].answer.fault

ClassifierFaulted ==
  \E i \in 1..Len(lastCall.events) :
    lastCall.events[i].model = "classifier" /\ lastCall.events[i].answer.fault

ResultFields ==
  { "scores", "dominant", "sentiment_score", "slang_detected",
    "normalized_text", "original_text" }

\* C1: every detection a call returns has a lowercased surface term that is
\* a key of the lexicon or the lowercased form of a variant of an entry.
C1_DetectionsInLexicon ==
  \A i \in 1..Len(Detections) : InLexicon(lower(Detections[i].text))

\* C1 witness: the tagger proposed, with confidence 0.99, a span whose term
\* the lexicon does not hold, next to one it holds; only the latter came back.
C1_Witness ==
  /\ lastCall.op = "detect_slang"
  /\ Len(lastCall.events) = 1
  /\ \E k \in 1..Len(lastCall.events[1].answer.results) :
       LET c == lastCall.events[1].answer.results[k] IN
       c.score = 99 /\ ~ InLexicon(lower(replace(strip(c.word), GDot)))
  /\ Len(Detections) = 1
  /\ Detections[1].text = << "K","A","P" >>

\* C2: analyze never raises and returns the six fields; detect_slang and
\* normalize_text never raise, and normalize_text returns a pair of a text
\* and a list.
C2_NeverRaises ==
  /\ lastCall.op = "analyze" =>
       ~ lastCall.exc /\ DOMAIN lastCall.val = ResultFields
  /\ lastCall.op = "detect_slang" => ~ lastCall.exc
  /\ lastCall.op = "normalize_text" =>
       ~ lastCall.exc /\ DOMAIN lastCall.val = 1..2
       /\ DOMAIN lastCall.val[2] = 1..Len(lastCall.val[2])

\* C2 witness: an analyze in which the tagger and then the classifier faulted.
C2_Witness ==
  /\ lastCall.op = "analyze"
  /\ TaggerFaulted
  /\ ClassifierFaulted
  /\ ~ lastCall.exc

\* C3: when the classifier faults in analyze, the result is the sentinel:
\* no scores, dominant "error", sentiment 0.0.
C3_ClassifierFaultSentinel ==
  (lastCall.op = "analyze" /\ ClassifierFaulted) =>
    /\ ~ lastCall.exc
    /\ lastCall.val.scores = << >>
    /\ lastCall.val.dominant = "error"
    /\ lastCall.val.sentiment_score = 0

\* C3 witness: the classifier faulted on a text in which slang was detected.
C3_Witness ==
  /\ lastCall.op = "analyze"
  /\ ClassifierFaulted
  /\ Len(Invocations("tagger")) = 1
  /\ ~ TaggerFaulted
  /\ lastCall.val.dominant = "error"

\* C4: analyze on a None, empty or whitespace-only text returns no scores,
\* dominant "neutral", sentiment 0.0 and no detections, and invokes no model.
C4_BlankShortCircuit ==
  (lastCall.op = "analyze" /\ BlankInput(lastCall.text)) =>
    /\ ~ lastCall.exc
    /\ lastCall.val.scores = << >>
    /\ lastCall.val.dominant = "neutral"
    /\ lastCall.val.sentiment_score = 0
    /\ lastCall.val.slang_detected = << >>
    /\ lastCall.events = << >>

\* C4 witness: analyze was called on a whitespace-only text with a loaded
\* normalizer.
C4_Witness ==
  /\ lastCall.op = "analyze"
  /\ lastCall.text = << " ", "\n" >>
  /\ lastCall.flag
  /\ SlangNormalizer_slang_detector = "pipeline"
  /\ EmotionEngine_slang_normalizer # 0

\* C5: when the tagger faults, detect_slang returns no detections,
\* normalize_text returns the text unchanged with no detections, and analyze
\* goes on to classify (the first TruncateChars characters of) the text it
\* was given.
C5_TaggerFaultNoDetections ==
  TaggerFaulted =>
    /\ ~ lastCall.exc
    /\ lastCall.op = "detect_slang" => lastCall.val = << >>
    /\ lastCall.op = "normalize_text" => lastCall.val = << lastCall.text, << >> >>
    /\ lastCall.op = "analyze" =>
         /\ Len(Invocations("classifier")) = 1
         /\ Invocations("classifier")[1].input = SliceTo(lastCall.text, TruncateChars)
         /\ lastCall.val.slang_detected = << >>
         /\ lastCall.val.normalized_text = lastCall.text

\* C5 witness: the tagger faulted in an analyze that ended with scores.
C5_Witness ==
  /\ lastCall.op = "analyze"
  /\ TaggerFaulted
  /\ lastCall.val.dominant = "joy"
  /\ lastCall.val.original_text = NglFr

\* C6 (as claimed): on an empty or whitespace-only text, detect_slang and
\* normalize_text return no detections and the text unchanged without
\* invoking the tagger.
C6_BlankDetectNoTagger ==
  (lastCall.op \in { "detect_slang", "normalize_text" } /\ BlankInput(lastCall.text)) =>
    /\ Detections = << >>
    /\ lastCall.op = "normalize_text" => lastCall.val[1] = lastCall.text
    /\ Invocations("tagger") = << >>

-----------------------------------------------------------------------------
(* Properties of lazy construction (SpecSeq, SpecConc) *)

\* C7 (as claimed): when no load fails, the classifier is constructed once
\* and _load_models runs once, and every caller of a get_instance receives
\* the same instance.
C7_OneConstruction ==
  hist.failures = 0 =>
    /\ hist.classifierLoads <= 1
    /\ hist.slangLoads <= 1
    /\ Cardinality(hist.engines) <= 1
    /\ Cardinality(hist.normalizers) <= 1

C9_NoInstanceWithoutLoad ==
  hist.normalizers # { } =>
    /\ hist.slangLoaded >= 1
    /\ ~ (SlangNormalizer_slang_detector = "None" /\ SlangNormalizer_slang_dict = "empty")

\* C10 (as claimed): in sequential use each loader runs at most once, and
\* each get_instance returns one and the same instance.
C10_LoadersRunOnce ==
  /\ hist.classifierLoads <= 1
  /\ hist.slangLoads <= 1
  /\ Cardinality(hist.engines) <= 1
  /\ Cardinality(hist.normalizers) <= 1

\* A loader that has succeeded does not run in this step.
NoReload ==
  /\ hist.classifierLoaded >= 1 => hist'.classifierLoads = hist.classifierLoads
  /\ hist.slangLoaded >= 1 => hist'.slangLoads = hist.slangLoads

\* C10 (amended): in sequential use each loader succeeds at most once and
\* never runs again after it has succeeded (it runs again only after a
\* failed run), and each get_instance returns one and the same instance.
C10_LoadedOnce ==
  /\ [](/\ hist.classifierLoaded <= 1
        /\ hist.slangLoaded <= 1
        /\ Cardinality(hist.engines) <= 1
        /\ Cardinality(hist.normalizers) <= 1)
  /\ [][NoReload]_vars

\* C10 witness: the classifier's constructor ran twice, the first run
\* failing, and a third call got the cached engine.
C10_Witness ==
  /\ hist.classifierLoads = 2
  /\ hist.classifierLoaded = 1
  /\ hist.calls = 3
  /\ ret[MainThread].op = "EmotionEngine.get_instance"
  /\ ret[MainThread].obj \in hist.engines
  /\ pc[MainThread] = "idle"
  /\ Cardinality(hist.engines) = 1

-----------------------------------------------------------------------------
(* Properties of the rewriting (Spec) *)

\* The latest call is a normalize_text (or normalize_slang) that returned.
NormalizeReturned ==
  /\ lastCall.op \in { "normalize_text", "normalize_slang" }
  /\ ~ lastCall.exc

\* C11: when normalize_text returns no detections, the text it returns is
\* the text it was given, whatever keep_original is.
C11_NoDetectionsNoRewrite ==
  (NormalizeReturned /\ lastCall.val[2] = << >>) => lastCall.val[1] = lastCall.text

\* C11 witness: with keep_original, the tagger proposed spans on a text
\* with leading characters to keep, none was validated, and the text came
\* back as given.
C11_Witness ==
  /\ lastCall.op = "normalize_text"
  /\ lastCall.flag
  /\ lastCall.text = KapZz
  /\ Len(lastCall.events) = 1
  /\ lastCall.events[1].answer.results # << >>
  /\ lastCall.val[2] = << >>
  /\ lastCall.val[1] = KapZz

\* Every span lies within the text.
ValidOffsets(text, detected) ==
  \A i \in 1..Len(detected) :
    0 <= detected[i].start /\ detected[i].start <= detected[i].end
    /\ detected[i].end <= Len(text)

\* No two spans share a character or a position.
NonOverlapping(detected) ==
  \A i, j \in 1..Len(detected) :
    i # j => (detected[i].end <= detected[j].start \/ detected[j].end <= detected[i].start)

\* What replaces a span: the normalized form, or "surface (normalized)".
Replacement(d, keep_original) ==
  IF keep_original THEN d.text \o << " ", "(" >> \o d.normalized \o << ")" >>
  ELSE d.normalized

\* One pass over the original text from offset pos on, left to right: the
\* spans D of `detected` replaced, the text between them copied.
RECURSIVE SinglePass(_, _, _, _, _)
SinglePass(text, detected, D, pos, keep_original) ==
  IF D = { } THEN SubSeq(text, pos + 1, Len(text))
  ELSE LET i == CHOOSE i \in D : \A j \in D : detected[i].start <= detected[j].start
       IN  SubSeq(text, pos + 1, detected[i].start)
           \o Replacement(detected[i], keep_original)
           \o SinglePass(text, detected, D \ { i }, detected[i].end, keep_original)

\* C12: for pairwise non-overlapping detections with valid offsets, the
\* text normalize_text returns is the original text with every span
\* replaced in one pass against the original offsets.
C12_SpliceIsSinglePass ==
  ( /\ NormalizeReturned
    /\ lastCall.val[2] # << >>
    /\ ValidOffsets(lastCall.text, lastCall.val[2])
    /\ NonOverlapping(lastCall.val[2]) )
  => lastCall.val[1] = SinglePass(lastCall.text, lastCall.val[2],
                                  1..Len(lastCall.val[2]), 0, lastCall.flag)

\* C12 witness: two detections, returned by the tagger in ascending order,
\* whose replacements differ in length from their spans.
C12_Witness ==
  /\ lastCall.op = "normalize_text"
  /\ lastCall.text = NglFr
  /\ Len(lastCall.val[2]) = 2
  /\ lastCall.val[2][1].start < lastCall.val[2][2].start
  /\ NonOverlapping(lastCall.val[2])
  /\ Len(lastCall.val[1]) # Len(NglFr)

-----------------------------------------------------------------------------
(* Properties of the dictionary methods (Spec) *)

\* The entries of the lexicon in use that match a lowercased term: the one
\* whose key it is, or else those listing it among their variants.
Matching(term_lower) ==
  IF \E i \in 1..Len(DictEntries) : DictEntries[i].key = term_lower
  THEN { i \in 1..Len(DictEntries) : DictEntries[i].key = term_lower }
  ELSE { i \in 1..Len(DictEntries) :
           \E j \in 1..Len(DictEntries[i].variations) :
             lower(DictEntries[i].variations[j]) = term_lower }

\* The lexicon entry for a term: the first that matches.
EntryFor(term) ==
  DictEntries[CHOOSE i \in Matching(lower(term)) : \A j \in Matching(lower(term)) : i <= j]

\* C13 (as claimed): _lookup_slang returns the description of the lexicon
\* entry for the term if it is non-empty, else its normalized_text if
\* non-empty, else its full_form if non-empty, and the term itself when the
\* entry has none of the three.
C13_LookupPriority ==
  (lastCall.op = "_lookup_slang" /\ Matching(lower(lastCall.text)) # { }) =>
    lastCall.val =
      IF EntryFor(lastCall.text).description # << >>
      THEN EntryFor(lastCall.text).description
      ELSE IF EntryFor(lastCall.text).normalized_text # << >>
      THEN EntryFor(lastCall.text).normalized_text
      ELSE IF EntryFor(lastCall.text).full_form # << >>
      THEN EntryFor(lastCall.text).full_form
      ELSE lastCall.text

\* C14: _exists_in_dictionary answers true exactly when the lowercased term
\* is a key of the lexicon in use or the lowercased form of a variant of
\* one of its entries, and answers the same for the term in any letter case.
C14_ExistsIffInLexicon ==
  lastCall.op = "_exists_in_dictionary" =>
    /\ ~ lastCall.exc
    /\ lastCall.val =
         (\E i \in 1..Len(DictEntries) :
            \/ DictEntries[i].key = lower(lastCall.text)
            \/ \E j \in 1..Len(DictEntries[i].variations) :
                 lower(DictEntries[i].variations[j]) = lower(lastCall.text))
    /\ \A term \in Terms :
         lower(term) = lower(lastCall.text) =>
           _exists_in_dictionary(term).val = lastCall.val

\* C14 witness: a term in mixed case that is no key and is found as the
\* lowercased form of a variant written in mixed case.
C14_Witness ==
  /\ lastCall.op = "_exists_in_dictionary"
  /\ lastCall.text = << "K","a","p" >>
  /\ SlangNormalizer_slang_dict = "loaded"
  /\ lastCall.val = TRUE

\* C15 (as claimed): no detection a call returns has a surface text that
\* begins with the mention marker or the hashtag marker, whatever the
\* lexicon holds.
C15_MarkersRejected ==
  \A i \in 1..Len(Detections) :
    Detections[i].text # << >> => Detections[i].text[1] \notin { "@", "#" }

-----------------------------------------------------------------------------
(* Properties of the derived values (Spec) *)

\* The latest call is an analyze that returned a result.
AnalyzeReturned ==
  /\ lastCall.op \in { "analyze", "analyze_emotion" }
  /\ ~ lastCall.exc

\* The score map of the result holds label c with score v.
HasScore(c, v) ==
  \E i \in 1..Len(lastCall.val.scores) :
    lastCall.val.scores[i].label = c /\ lastCall.val.scores[i].score = v

\* The scores of the result that meet the significance threshold.
Significant == { i \in 1..Len(lastCall.val.scores) :
                   lastCall.val.scores[i].score >= EMOTION_MODEL_THRESHOLD }

\* C16: in a result with scores, dominant is a category of greatest score
\* among those meeting the threshold if there is one, and else a category
\* of greatest score overall; so a dominant label is produced whenever the
\* score map is not empty.
C16_DominantIsHighest ==
  (AnalyzeReturned /\ lastCall.val.scores # << >>) =>
    \E i \in 1..Len(lastCall.val.scores) :
      /\ lastCall.val.scores[i].label = lastCall.val.dominant
      /\ IF Significant # { }
         THEN /\ i \in Significant
              /\ \A j \in Significant :
                   lastCall.val.scores[j].score <= lastCall.val.scores[i].score
         ELSE \A j \in 1..Len(lastCall.val.scores) :
                lastCall.val.scores[j].score <= lastCall.val.scores[i].score

\* C16 witness: two categories meet the threshold and the greater is not
\* the first.
C16_Witness ==
  /\ AnalyzeReturned
  /\ HasScore("joy", 40)
  /\ HasScore("love", 95)
  /\ lastCall.val.dominant = "love"

\* scores.get(c, 0) on the score map of the result.
ScoreOf(c) ==
  IF \E i \in 1..Len(lastCall.val.scores) : lastCall.val.scores[i].label = c
  THEN lastCall.val.scores[CHOOSE i \in 1..Len(lastCall.val.scores) :
                             lastCall.val.scores[i].label = c].score
  ELSE 0

\* The sum of ScoreOf over a set of categories.
RECURSIVE Total(_)
Total(categories) ==
  IF categories = { } THEN 0
  ELSE LET c == CHOOSE c \in categories : TRUE
       IN  ScoreOf(c) + Total(categories \ { c })

\* The categories the score map of the result holds.
Labels == { lastCall.val.scores[i].label : i \in 1..Len(lastCall.val.scores) }

\* C17: sentiment_score is the sum of the scores of the positive categories
\* minus the sum of the scores of the negative categories, a category the
\* map lacks counting as 0 and a category in neither set as nothing; the
\* two sets are disjoint.
C17_SentimentIsDifference ==
  AnalyzeReturned =>
    /\ positive_emotions \cap negative_emotions = { }
    /\ lastCall.val.sentiment_score = Total(positive_emotions) - Total(negative_emotions)

\* C17 witness: a result with a positive, a negative and a neutral category,
\* most categories missing from the map.
C17_Witness ==
  /\ AnalyzeReturned
  /\ HasScore("joy", 90)
  /\ HasScore("anger", 5)
  /\ HasScore("neutral", 10)
  /\ lastCall.val.sentiment_score = 85

\* Every score of the result lies in [0, 1].
ScoresInUnitRange ==
  \A i \in 1..Len(lastCall.val.scores) :
    0 <= lastCall.val.scores[i].score /\ lastCall.val.scores[i].score <= 100

-----------------------------------------------------------------------------
(* Properties of repeated analysis (SpecTwice) *)

\* The latest call is the second analyze of the text of the result kept,
\* the models having answered as they did in the first.
AnalyzedAgain ==
  /\ hist.first # NoCall
  /\ lastCall.op = "analyze"
  /\ lastCall.text = hist.first.text
  /\ lastCall.flag = hist.first.flag
  /\ Deterministic(hist.first.events, lastCall.events)

-----------------------------------------------------------------------------
(* Properties of the order of the steps (Spec) *)

\* The candidates of a tagger's answer that validation lets through.
Validated(answer) ==
  IF answer.fault THEN << >>
  ELSE SelectSeq(answer.results,
                 LAMBDA c : InLexicon(lower(replace(strip(c.word), GDot))))

\* C20 (as claimed): in an analyze of a non-blank text with normalization
\* enabled and a slang normalizer loaded, the tagger is invoked exactly
\* once and before the classifier, the classifier at most once, and the
\* classifier is given the rewritten text when a detection was validated
\* and the original text otherwise (cut to the character budget).
C20_StepOrder ==
  ( /\ lastCall.op = "analyze"
    /\ ~ BlankInput(lastCall.text)
    /\ lastCall.flag
    /\ EmotionEngine_slang_normalizer # 0 )
  => /\ Len(Invocations("tagger")) = 1
     /\ Len(Invocations("classifier")) <= 1
     /\ lastCall.events # << >> /\ lastCall.events[1].model = "tagger"
     /\ \A i \in 1..Len(lastCall.events) :
          lastCall.events[i].model = "classifier" =>
            lastCall.events[i].input =
              SliceTo(IF Validated(lastCall.events[1].answer) # << >>
                      THEN normalize_text(lastCall.text, FALSE,
                                          lastCall.events[1].answer).val[1]
                      ELSE lastCall.text,
                      TruncateChars)

\* ---------------------------------------------------------------------
\* C21

\* The text analyze settles on before classifying: the rewritten text when
\* the tagger was asked and a proposal was validated, the caller's text
\* otherwise.
ChosenText ==
  IF /\ Invocations("tagger") # << >>
     /\ Validated(Invocations("tagger")[1].answer) # << >>
  THEN normalize_text(lastCall.text, FALSE, Invocations("tagger")[1].answer).val[1]
  ELSE lastCall.text

FirstChars(input, text, n) ==
  /\ Len(input) = Min(Len(text), n)
  /\ \A i \in 1..Len(input) : input[i] = text[i]

\* C21: in every analyze the classifier is handed the first 500 characters
\* of the chosen text (rewritten or original), so never more than 500
\* characters even when rewriting lengthened the text, while the result's
\* normalized_text and original_text are whole texts, not cut.
C21_ClassifierInputCut ==
  lastCall.op = "analyze"
  => /\ \A i \in 1..Len(lastCall.events) :
          lastCall.events[i].model = "classifier" =>
            /\ Len(lastCall.events[i].input) <= TruncateChars
            /\ FirstChars(lastCall.events[i].input, ChosenText, TruncateChars)
     /\ ~ lastCall.exc
     /\ lastCall.val.normalized_text = ChosenText
     /\ lastCall.val.original_text \in { lastCall.text, ChosenText }

\* A text within one character of the budget is lengthened by the rewrite,
\* the classifier gets exactly 500 characters and the result keeps all.
C21_Witness ==
  /\ lastCall.op = "analyze"
  /\ ~ lastCall.exc
  /\ Len(lastCall.text) > TruncateChars
  /\ Len(ChosenText) > Len(lastCall.text)
  /\ Invocations("classifier") # << >>
  /\ Len(Invocations("classifier")[1].input) = TruncateChars
  /\ Len(lastCall.val.normalized_text) > Len(lastCall.text)
  /\ lastCall.val.slang_detected # << >>

\* ---------------------------------------------------------------------
\* C22

\* C22 (as claimed): in every result of analyze, on every path, the
\* original_text field is the text the caller passed.
C22_OriginalTextKept ==
  ( lastCall.op = "analyze" /\ ~ lastCall.exc )
  => lastCall.val.original_text = lastCall.text

\* ---------------------------------------------------------------------
\* C23

\* The offsets of a list of detections or of tagger proposals, in order.
Offsets(items) == [ i \in 1..Len(items) |-> << items[i].start, items[i].end >> ]

\* The text the offsets of the last call's detections refer to.
OriginalText ==
  IF lastCall.op \in { "analyze", "analyze_emotion" } /\ ~ lastCall.exc
  THEN lastCall.val.original_text
  ELSE lastCall.text

\* C23: the start and end of every detection returned by normalize_text or
\* carried in an analyze result's slang_detected are those the tagger
\* reported on the original input, never shifted by a rewrite, so
\* 0 <= start <= end <= len(original_text).
C23_OffsetsAsReported ==
  ( lastCall.op \in { "normalize_text", "analyze" } /\ Detections # << >> )
  => /\ Len(Invocations("tagger")) = 1
     /\ Invocations("tagger")[1].input = lastCall.text
     /\ Offsets(Detections) = Offsets(Validated(Invocations("tagger")[1].answer))
     /\ ValidOffsets(OriginalText, Detections)

\* An analyze whose rewrite changed the length of the text and whose
\* detection came from a proposal with a tokenization prefix.
C23_Witness ==
  /\ lastCall.op = "analyze"
  /\ ~ lastCall.exc
  /\ Detections # << >>
  /\ Len(lastCall.val.normalized_text) # Len(lastCall.val.original_text)
  /\ \E i \in 1..Len(Invocations("tagger")[1].answer.results) :
       LET c == Invocations("tagger")[1].answer.results[i]
       IN  Len(c.word) > c.end - c.start

\* ---------------------------------------------------------------------
\* C24

\* C24 (as claimed): every record returned by detect_slang has a 'term'
\* field and a 'meaning' field, each holding a non-empty string.
C24_TermAndMeaning ==
  ( lastCall.op = "detect_slang" /\ ~ lastCall.exc )
  => \A i \in 1..Len(lastCall.val) :
       /\ "term" \in DOMAIN lastCall.val[i]
       /\ "meaning" \in DOMAIN lastCall.val[i]
       /\ lastCall.val[i].term # << >>
       /\ lastCall.val[i].meaning # << >>

\* ---------------------------------------------------------------------
\* TextPreprocessor (app/utils/preprocessing.py)

\* TextPreprocessor.SLANG_DICT, as pairs of a word and its expansion.
SLANG_DICT ==
  << << << "l","o","l" >>,
        << "l","a","u","g","h","i","n","g"," ","o","u","t"," ","l","o","u","d" >> >>,
     << << "o","m","g" >>,
        << "o","h"," ","m","y"," ","g","o","d" >> >>,
     << << "b","t","w" >>,
        << "b","y"," ","t","h","e"," ","w","a","y" >> >>,
     << << "t","b","h" >>,
        << "t","o"," ","b","e"," ","h","o","n","e","s","t" >> >>,
     << << "i","m","o" >>,
        << "i","n"," ","m","y"," ","o","p","i","n","i","o","n" >> >>,
     << << "i","m","h","o" >>,
        << "i","n"," ","m","y"," ","h","u","m","b","l","e"," ","o","p","i","n","i","o","n" >> >>,
     << << "b","r","b" >>,
        << "b","e"," ","r","i","g","h","t"," ","b","a","c","k" >> >>,
     << << "g","t","g" >>,
        << "g","o","t"," ","t","o"," ","g","o" >> >>,
     << << "i","d","k" >>,
        << "i"," ","d","o","n","'","t"," ","k","n","o","w" >> >>,
     << << "s","m","h" >>,
        << "s","h","a","k","i","n","g"," ","m","y"," ","h","e","a","d" >> >>,
     << << "f","y","i" >>,
        << "f","o","r"," ","y","o","u","r"," ","i","n","f","o","r","m","a","t","i","o","n" >> >>,
     << << "d","m" >>,
        << "d","i","r","e","c","t"," ","m","e","s","s","a","g","e" >> >>,
     << << "r","t" >>,
        << "r","e","t","w","e","e","t" >> >>,
     << << "i","c","y","m","i" >>,
        << "i","n"," ","c","a","s","e"," ","y","o","u"," ","m","i","s","s","e","d"," ","i","t" >> >> >>

\* One emoji character, U+1F525, and the name emoji.demojize gives it.
Emoji == "U+1F525"

EmojiName == << "f","i","r","e" >>

Digits == { "0","1","2","3","4","5","6","7","8","9" }

\* The characters \w matches.
WordChars ==
  { UpperAlphabet[i] : i \in 1..Len(UpperAlphabet) }
    \cup { LowerAlphabet[i] : i \in 1..Len(LowerAlphabet) }
    \cup Digits \cup { "_" }

\* The character classes \w, \s and \S.
InClass(c, class) ==
  CASE class = "w" -> c \in WordChars
    [] class = "s" -> c \in Whitespace
    [] class = "S" -> c \notin Whitespace

\* The length of the longest run of characters of a class from s[i] on.
RECURSIVE Run(_, _, _)
Run(s, i, class) ==
  IF i > Len(s) \/ ~ InClass(s[i], class) THEN 0
  ELSE 1 + Run(s, i + 1, class)

StartsWith(s, prefix) ==
  Len(s) >= Len(prefix) /\ SubSeq(s, 1, Len(prefix)) = prefix

\* The length of the match of a pattern of clean_text at the head of s,
\* 0 when there is none (every pattern matches at least one character).
Match(pattern, s) ==
  CASE pattern = "http\\S+|www.\\S+" ->
         IF /\ \/ StartsWith(s, << "h","t","t","p" >>)
               \/ StartsWith(s, << "w","w","w" >>) /\ Len(s) >= 4 /\ s[4] # "\n"
            /\ Run(s, 5, "S") > 0
         THEN 4 + Run(s, 5, "S")
         ELSE 0
    [] pattern = "@\\w+" ->
         IF StartsWith(s, << "@" >>) /\ Run(s, 2, "w") > 0
         THEN 1 + Run(s, 2, "w")
         ELSE 0
    [] pattern = "#" -> IF StartsWith(s, << "#" >>) THEN 1 ELSE 0
    [] pattern = "\\s+" -> Run(s, 1, "s")

\* re.sub(pattern, repl, s)
RECURSIVE re_sub(_, _, _)
re_sub_at(pattern, repl, s, m) ==
  IF m > 0 THEN repl \o re_sub(pattern, repl, SubSeq(s, m + 1, Len(s)))
  ELSE << Head(s) >> \o re_sub(pattern, repl, Tail(s))

re_sub(pattern, repl, s) ==
  IF s = << >> THEN << >> ELSE re_sub_at(pattern, repl, s, Match(pattern, s))

\* str.split()
RECURSIVE split(_)
split_word(s, n) == << SubSeq(s, 1, n) >> \o split(SubSeq(s, n + 1, Len(s)))

split(s) ==
  IF lstrip(s) = << >> THEN << >> ELSE split_word(lstrip(s), Run(lstrip(s), 1, "S"))

\* " ".join(words)
RECURSIVE join(_)
join(words) ==
  IF words = << >> THEN << >>
  ELSE IF Len(words) = 1 THEN words[1]
  ELSE words[1] \o << " " >> \o join(Tail(words))

\* TextPreprocessor.normalize_emoji: emoji.demojize with ' ' delimiters.
RECURSIVE normalize_emoji(_)
normalize_emoji(text) ==
  IF text = << >> THEN << >>
  ELSE IF Head(text) = Emoji
       THEN << " " >> \o EmojiName \o << " " >> \o normalize_emoji(Tail(text))
       ELSE << Head(text) >> \o normalize_emoji(Tail(text))

\* SLANG_DICT.get(word, word)
SLANG_DICT_get(word) ==
  IF \E i \in 1..Len(SLANG_DICT) : SLANG_DICT[i][1] = word
  THEN SLANG_DICT[CHOOSE i \in 1..Len(SLANG_DICT) : SLANG_DICT[i][1] = word][2]
  ELSE word

\* TextPreprocessor.expand_slang
expand_slang(text) ==
  join([ i \in 1..Len(split(lower(text))) |-> SLANG_DICT_get(split(lower(text))[i]) ])

\* TextPreprocessor.clean_text
clean_text(text) ==
  strip(re_sub("\\s+", << " " >>,
          re_sub("#", << >>,
            re_sub("@\\w+", << >>,
              re_sub("http\\S+|www.\\S+", << >>, text)))))

\* TextPreprocessor.detect_language: langdetect's answer, None when it
\* raises LangDetectException.
detect_language(answer) == IF answer.fault THEN None ELSE answer.results

\* TextPreprocessor.preprocess; `answer` is what langdetect makes of the
\* text with its emojis named.
preprocess(text, answer) ==
  IF text = None THEN Ok(<< << >>, None >>, << >>)
  ELSE Ok(<< expand_slang(clean_text(normalize_emoji(text))),
             detect_language(answer) >>,
          << Invocation("langdetect", normalize_emoji(text), answer) >>)


\* The pieces test texts are made of (tests/test_preprocessing.py): a
\* mention sign, a hashtag sign, a letter, a blank, the two URL openings,
\* an emoji and a slang word.
Pieces ==
  { << "@" >>, << "#" >>, << "a" >>, << " " >>, << "h","t","t","p" >>,
    << "w","w","w","." >>, << Emoji >>, << "L","O","L" >> }

MaxPieces == 3

RECURSIVE Flatten(_)
Flatten(ps) == IF ps = << >> THEN << >> ELSE Head(ps) \o Flatten(Tail(ps))

PreprocessTexts ==
  { None } \cup { Flatten(ps) : ps \in UNION { [ 1..n -> Pieces ] : n \in 0..MaxPieces } }

\* What langdetect may make of a text: a language code, or
\* LangDetectException (always so on a text without features).
LanguageAnswers(text) ==
  { [ fault |-> TRUE, results |-> << >> ] }
    \cup { [ fault |-> FALSE, results |-> << "e","n" >> ] : x \in { text } \ { None, << >> } }

\* A call of text_preprocessor.preprocess.
Preprocess ==
  /\ lastCall = NoCall
  /\ \E text \in PreprocessTexts :
       \E answer \in LanguageAnswers(IF text = None THEN None ELSE normalize_emoji(text)) :
         lastCall' = Completed("preprocess", text, FALSE, preprocess(text, answer))
  /\ UNCHANGED << classVars, threadVars >>
  /\ UNCHANGED middlewareVars

PreprocessNext ==
  \/ Preprocess
  \/ Discard

\* The preprocessor in use.
SpecPreprocess == Init /\ [][PreprocessNext]_vars

\* ---------------------------------------------------------------------
\* C25

\* C25 (as claimed): the text returned by preprocess contains no @mention,
\* that is no '@' immediately followed by a word character, whatever other
\* markers surround it in the input.
C25_NoMentionLeft ==
  ( lastCall.op = "preprocess" /\ ~ lastCall.exc )
  => \A i \in 1..(Len(lastCall.val[1]) - 1) :
       ~ ( lastCall.val[1][i] = "@" /\ lastCall.val[1][i + 1] \in WordChars )

\* ---------------------------------------------------------------------
\* C26

\* C26 (as claimed, here even with no load ever failing): whenever
\* SlangNormalizer.get_instance returns an instance, also while another
\* caller is inside _load_models, the tagger and the lexicon are fully
\* loaded.
C26_ReturnedWhenLoaded ==
  [][ \A t \in Threads :
        ( pc[t] = "S41" /\ pc'[t] # "S41" /\ hist.failures = 0 )
        => /\ SlangNormalizer_slang_detector = "pipeline"
           /\ SlangNormalizer_slang_dict = "loaded" ]_vars

\* ---------------------------------------------------------------------
\* C27

\* C27: an analyze called with normalize_slang = False, or on an engine
\* without a slang normalizer, never invokes the tagger, returns an empty
\* slang_detected and a normalized_text equal to the input text, and gives
\* the classifier the original text cut to the character budget.
C27_NormalizationOff ==
  ( /\ lastCall.op = "analyze"
    /\ ~ lastCall.flag \/ EmotionEngine_slang_normalizer = 0 )
  => /\ Invocations("tagger") = << >>
     /\ ~ lastCall.exc
     /\ lastCall.val.slang_detected = << >>
     /\ lastCall.val.normalized_text = lastCall.text
     /\ \A i \in 1..Len(lastCall.events) :
          /\ lastCall.events[i].model = "classifier"
          /\ lastCall.events[i].input = SubSeq(lastCall.text, 1, Min(TruncateChars, Len(lastCall.text)))

\* The flag is off on an engine whose normalizer is loaded and working, the
\* text holds slang and is longer than the budget, and the classifier
\* answered for it.
C27_Witness ==
  /\ lastCall.op = "analyze"
  /\ ~ lastCall.flag
  /\ EmotionEngine_slang_normalizer # 0
  /\ SlangNormalizer_slang_detector = "pipeline"
  /\ lastCall.text = LongText
  /\ Len(Invocations("classifier")) = 1
  /\ ~ lastCall.exc
  /\ lastCall.val.dominant = "joy"

\* ---------------------------------------------------------------------
\* C28

\* normalize_text's rewrite of a text with a list of detections, the
\* original terms not kept.
Rewritten(text, detected) ==
  IF detected = << >> THEN text ELSE Splice(text, SortDesc(detected), FALSE)

\* C28: in every result of analyze the three text fields agree:
\* normalized_text is original_text rewritten with the detections of
\* slang_detected, so with an empty slang_detected it is original_text.
C28_TextFieldsAgree ==
  ( lastCall.op = "analyze" /\ ~ lastCall.exc )
  => /\ lastCall.val.normalized_text
          = Rewritten(lastCall.val.original_text, lastCall.val.slang_detected)
     /\ lastCall.val.slang_detected = << >>
          => lastCall.val.normalized_text = lastCall.val.original_text

\* A result with two detections whose rewrite changed the text.
C28_Witness ==
  /\ lastCall.op = "analyze"
  /\ ~ lastCall.exc
  /\ Len(lastCall.val.slang_detected) = 2
  /\ lastCall.val.normalized_text # lastCall.val.original_text
  /\ lastCall.val.original_text = lastCall.text

\* ---------------------------------------------------------------------
\* The choice of the dominant emotion under any configured threshold

\* The categories of a classifier's answer, in its output order.
Categories == << "joy", "anger", "neutral", "love", "fear" >>

MaxCategories == 3

\* Scores in hundredths: below, at and above the default threshold.
ScoreValues == { 5, 30, 90 }

\* The non-empty score maps all_scores can be (lines 108-111).
ScoreMaps ==
  { [ i \in 1..n |-> [ label |-> Categories[i], score |-> f[i] ] ] :
      n \in 1..MaxCategories, f \in [ 1..MaxCategories -> ScoreValues ] }

\* Values settings.EMOTION_MODEL_THRESHOLD may be configured to, in
\* hundredths: below, between, at and above the scores.
Thresholds == { 0 - 100, 0, 5, 6, 30, 31, 90, 91, 100 }

\* Lines 113-126 of analyze for a score map and a configured threshold.
DeriveDominant ==
  /\ lastCall = NoCall
  /\ \E all_scores \in ScoreMaps, threshold \in Thresholds :
       lastCall' = Completed("dominant", << >>, FALSE,
                     Ok([ scores |-> all_scores,
                          threshold |-> threshold,
                          dominant |-> Dominant(all_scores,
                                         SignificantAt(all_scores, threshold)) ],
                        << >>))
  /\ UNCHANGED << classVars, threadVars >>
  /\ UNCHANGED middlewareVars

DominantNext ==
  \/ DeriveDominant
  \/ Discard

SpecDominant == Init /\ [][DominantNext]_vars

\* ---------------------------------------------------------------------
\* C29

\* C29: the dominant emotion does not depend on the threshold: for every
\* non-empty score map and every threshold it is the first category, in
\* the classifier's output order, whose score is the greatest of all.
C29_DominantIgnoresThreshold ==
  lastCall.op = "dominant"
  => \E i \in 1..Len(lastCall.val.scores) :
       /\ lastCall.val.dominant = lastCall.val.scores[i].label
       /\ \A j \in 1..Len(lastCall.val.scores) :
            lastCall.val.scores[j].score <= lastCall.val.scores[i].score
       /\ \A j \in 1..(i - 1) :
            lastCall.val.scores[j].score < lastCall.val.scores[i].score

\* No score meets the threshold, the greatest score is attained twice and
\* not by the first category.
C29_Witness ==
  /\ lastCall.op = "dominant"
  /\ \A i \in 1..Len(lastCall.val.scores) :
       lastCall.val.scores[i].score < lastCall.val.threshold
  /\ Len(lastCall.val.scores) = 3
  /\ lastCall.val.scores[1].score < lastCall.val.scores[2].score
  /\ lastCall.val.scores[2].score = lastCall.val.scores[3].score
  /\ lastCall.val.dominant = lastCall.val.scores[2].label

\* ---------------------------------------------------------------------
\* The rate limiting middleware in use

\* The application as started (main.py:53-54), with or without TESTING set.
RateInit ==
  /\ Loaded
  /\ pc = [ t \in Threads |-> "idle" ]
  /\ frame = [ t \in Threads |-> NoFrame ]
  /\ lastCall = NoCall
  /\ TESTING \in { "None", "true" }
  /\ now = 0
  /\ RateLimitMiddleware_requests = [ ip \in IPs |-> << >> ]
  /\ RateLimitMiddleware_blocked_ips = << >>
  /\ inflight = [ ip \in IPs |-> 0 ]
  /\ served = << >>

RateNext ==
  \/ Dispatch
  \/ Respond
  \/ Tick

SpecRate == RateInit /\ [][RateNext]_vars

\* ---------------------------------------------------------------------
\* C30

\* The requests of a client forwarded to the application from time a on,
\* for one minute.
ForwardedIn(ip, a) ==
  { i \in 1..Len(served) :
      /\ served[i].ip = ip /\ served[i].status = 200
      /\ a <= served[i].at /\ served[i].at < a + Window }

\* The requests of a client admitted in the minute before request i.
AdmittedBefore(i) ==
  { j \in 1..(i - 1) :
      /\ served[j].ip = served[i].ip /\ served[j].status = 200
      /\ served[i].at - served[j].at < Window }

\* At most requests_per_minute requests of each client are forwarded in a
\* window of one minute (a window holding the most begins at a request),
\* and a request arriving when that many were admitted in the minute
\* before is answered 429.
RateLimited ==
  /\ \A ip \in IPs : \A i \in 1..Len(served) :
       Cardinality(ForwardedIn(ip, served[i].at)) <= requests_per_minute
  /\ \A i \in 1..Len(served) :
       Cardinality(AdmittedBefore(i)) >= requests_per_minute => served[i].status = 429

\* C30 (as claimed): for each client IP and under any interleaving of
\* concurrent requests, at most requests_per_minute requests are forwarded
\* within any 60-second window, and a request arriving when that many were
\* admitted in the preceding minute is answered 429 and not forwarded.
C30_AtMostPerMinute == RateLimited

\* C30 (amended): the same, unless the environment variable TESTING is
\* "true"; then every request is forwarded.
C30_AtMostPerMinuteUnlessTesting ==
  IF TESTING = "true"
  THEN \A i \in 1..Len(served) : served[i].status = 200
  ELSE RateLimited

\* TESTING is unset, a client has as many requests as the limit allows
\* still awaiting the application, and a further one was answered 429.
C30_Witness ==
  /\ TESTING # "true"
  /\ \E ip \in IPs :
       /\ inflight[ip] = requests_per_minute
       /\ \E i \in 1..Len(served) :
            /\ served[i].ip = ip /\ served[i].status = 429
            /\ Cardinality(AdmittedBefore(i)) = requests_per_minute

====
